---- MODULE Spec2Model ----
(***************************************************************************)
(* Excel data sync service (syncExcelData and its helpers): a model of the *)
(* sync of one model's records into the vector store, the knowledge-graph  *)
(* edges, the payload indexes and the one-hop FK cascade.                  *)
(*                                                                         *)
(* A call of syncExcelData is a frame on `stack`; a frame advances from    *)
(* one await of the source to the next.  The schema registry and the data  *)
(* files are read-only during a run and are fixed in `world` by Init.      *)
(***************************************************************************)
EXTENDS Integers, Sequences, FiniteSets, TLC

(* ------------------------------ bounds -------------------------------- *)

\* External calls that may fail (throw, or return a wrong count) in one run.
MaxFaults == 2
\* The FK ids a record of a small data file may carry: 1..MaxFkId.
MaxFkId == 2
\* The root calls a caller makes one after the other on the same model.
MaxRuns == 2
\* The rows of a simple schema handed to the converter: 0..MaxRows.
MaxRows == 3

(* ------------------------- program constants -------------------------- *)

EMBEDDING_BATCH_SIZE == 50

(* ------------------------------ values -------------------------------- *)

\* A value of a raw record or of a payload.  JavaScript's values are kept
\* apart by `kind`: undefined (the column is absent), null, a number n, an
\* [id, label] pair with id n, a string s, and a V2 UUID.
Val(kind, n, m, s) == [kind |-> kind, n |-> n, m |-> m, s |-> s]
Undef == Val("undef", 0, 0, "")
Null == Val("null", 0, 0, "")
Num(n) == Val("num", n, 0, "")
Tup(n) == Val("tuple", n, 0, "label")
Str(s) == Val("str", 0, 0, s)

NaN == Val("nan", 0, 0, "")

\* !v: undefined, null, 0, NaN and '' are falsy.
Falsy(v) ==
  \/ v.kind \in {"undef", "null", "nan"}
  \/ (v.kind = "num" /\ v.n = 0)
  \/ (v.kind = "str" /\ v.s = "")

Models == {"A", "B", "C"}
NoModel == ""
NoPath == ""

Min(a, b) == IF a < b THEN a ELSE b

SeqToSet(s) == {s[x] : x \in 1..Len(s)}

RECURSIVE SetToSeq(_)
\* The elements of a set of integers in increasing order.
SetToSeq(S) ==
  IF S = {} THEN <<>>
  ELSE LET m == CHOOSE x \in S : \A y \in S : x <= y
       IN <<m>> \o SetToSeq(S \ {m})

(* ----------------------------- the schema ----------------------------- *)

\* One row of the schema registry as syncExcelData reads it.
\* fk_location_model = NoModel and fk_location_model_id = 0 stand for a
\* missing target name and a missing target id.
SchemaField(fid, name, type, target, targetId) ==
  [field_id |-> fid, field_name |-> name, field_label |-> name,
   field_type |-> type, fk_location_model |-> target,
   fk_location_model_id |-> targetId]

IdField(m) == SchemaField(1, "id", "integer", NoModel, 0)

\* getModelIdFromSchema for a model the registry resolves.
RegistryId(m) == CASE m = "A" -> 1 [] m = "B" -> 2 [] m = "C" -> 3 [] OTHER -> 0

\* What an FK column of a schema may declare: nothing (the column is not
\* in the schema), a target with its id, a target without id, no target.
FkDecl(t, hasId) == [t |-> t, hasId |-> hasId]
Absent == [t |-> "absent", hasId |-> FALSE]

FkFieldOf(name, fid, d) ==
  SchemaField(fid, name, "many2one", d.t,
              IF d.hasId /\ d.t # NoModel THEN RegistryId(d.t) ELSE 0)

\* The schema fields of a model: the id column, then its declared FK columns.
FieldsOf(m, d1, d2) ==
  <<IdField(m)>>
  \o (IF d1 = Absent THEN <<>> ELSE <<FkFieldOf("f1", 2, d1)>>)
  \o (IF d2 = Absent THEN <<>> ELSE <<FkFieldOf("f2", 3, d2)>>)

(* ---------------------------- data files ------------------------------ *)

Row(id, v1, v2) == [id |-> id, f1 |-> v1, f2 |-> v2]

\* The cells an FK column of a small file holds.
FkCells == {Null, Str("n/a")} \cup {Num(n) : n \in 1..MaxFkId} \cup {Tup(n) : n \in 1..MaxFkId}

\* A file of n records with ids 1..n whose FK cells all hold id 1, except
\* that the records at the positions in `noId` have no id.
BigFile(n, noId) ==
  [x \in 1..n |-> Row(IF x \in noId THEN Undef ELSE Num(x), Num(1), Null)]

File(rows) == [present |-> TRUE, rows |-> rows]
MissingFile == [present |-> FALSE, rows |-> <<>>]

(* ------------------- identity and FK value extraction ------------------ *)

\* buildDataUuidV2: the V2 identity of a data point, a function of the
\* model id and the record id alone.
buildDataUuidV2(modelId, recordId) == Val("uuid", recordId, modelId, "data")

\* record[name]: undefined for a column the record does not have.
Cell(record, name) == IF name \in DOMAIN record THEN record[name] ELSE Undef

\* extractFkValueBySchema: a number is the FK id itself (source "scalar"),
\* an [id, label] pair gives the id and a display name (source "tuple"),
\* anything else resolves nothing and raises nothing.
extractFkValueBySchema(record, field) ==
  LET v == Cell(record, field.field_name)
  IN CASE v.kind = "num" ->
            [resolved |-> TRUE, fkId |-> v.n, named |-> FALSE, source |-> "scalar"]
       [] v.kind = "tuple" ->
            [resolved |-> TRUE, fkId |-> v.n, named |-> TRUE, source |-> "tuple"]
       [] OTHER ->
            [resolved |-> FALSE, fkId |-> 0, named |-> FALSE, source |-> "none"]

\* The distinct FK ids the records resolve for one FK field.
FkIdsOf(records, field) ==
  {extractFkValueBySchema(records[x], field).fkId :
     x \in {y \in 1..Len(records) :
              extractFkValueBySchema(records[y], field).resolved}}

\* getFkFieldsFromSchema: the many2one fields of the model's schema.
getFkFieldsFromSchema(schemaFields) ==
  SelectSeq(schemaFields, LAMBDA f : f.field_type = "many2one")

(* -------------------------- transformRecords --------------------------- *)

\* `${field_name}_qdrant` and `${field_name}_id`.
QdrantKey(name) ==
  CASE name = "f1" -> "f1_qdrant" [] name = "f2" -> "f2_qdrant" [] OTHER -> "id_qdrant"
IdKey(name) ==
  CASE name = "f1" -> "f1_id" [] name = "f2" -> "f2_id" [] OTHER -> "id_id"

\* One part of the semantic text: the field's label and its display value.
TextPart(record, field) ==
  LET v == Cell(record, field.field_name)
      fk == extractFkValueBySchema(record, field)
  IN IF field.field_type = "many2one" /\ fk.resolved
     THEN [label |-> field.field_label,
           fmt |-> IF fk.named THEN "name (id)" ELSE "id", n |-> fk.fkId]
     ELSE [label |-> field.field_label, fmt |-> "raw", n |-> v.n]

\* generateSemanticText: model, record id, then one part per schema field
\* other than id whose value is not null, undefined or ''.
generateSemanticText(record, modelName, schemaFields) ==
  LET shown == SelectSeq(schemaFields, LAMBDA f :
                 /\ f.field_name # "id"
                 /\ Cell(record, f.field_name).kind \notin {"null", "undef"}
                 /\ Cell(record, f.field_name) # Str(""))
  IN [model |-> modelName, record |-> record.id.n,
      parts |-> [x \in 1..Len(shown) |-> TextPart(record, shown[x])]]

\* Faulty variant: the target model id is not asked for.
LinkedFieldsAny(record, schemaFields) ==
  {x \in 1..Len(schemaFields) :
     /\ schemaFields[x].field_type = "many2one"
     /\ extractFkValueBySchema(record, schemaFields[x]).resolved}

\* The many2one fields with a target model id whose FK id the record resolves.
LinkedFields(record, schemaFields) ==
  {x \in 1..Len(schemaFields) :
     /\ schemaFields[x].field_type = "many2one"
     /\ schemaFields[x].fk_location_model_id # 0
     /\ extractFkValueBySchema(record, schemaFields[x]).resolved}

\* The payload of one record: its fields that are not null or undefined,
\* then `<field>_qdrant` for every linked field and `<field>_id` for the
\* linked fields read from a bare number; a later write replaces an earlier.
PayloadOf(record, schemaFields) ==
  LET raw == {k \in DOMAIN record : record[k].kind \notin {"null", "undef"}}
      linked == LinkedFields(record, schemaFields)
      scalar == {x \in linked :
                   extractFkValueBySchema(record, schemaFields[x]).source = "scalar"}
      qkeys == {QdrantKey(schemaFields[x].field_name) : x \in linked}
      ikeys == {IdKey(schemaFields[x].field_name) : x \in scalar}
      Last(S) == CHOOSE x \in S : \A y \in S : y <= x
      qOf(k) == Last({x \in linked : QdrantKey(schemaFields[x].field_name) = k})
      iOf(k) == Last({x \in scalar : IdKey(schemaFields[x].field_name) = k})
      Later(k) == k \in ikeys /\ (k \notin qkeys \/ iOf(k) >= qOf(k))
  IN [k \in raw \cup qkeys \cup ikeys |->
       IF Later(k)
       THEN Num(extractFkValueBySchema(record, schemaFields[iOf(k)]).fkId)
       ELSE IF k \in qkeys
       THEN buildDataUuidV2(schemaFields[qOf(k)].fk_location_model_id,
                            extractFkValueBySchema(record, schemaFields[qOf(k)]).fkId)
       ELSE record[k]]

TransformOne(record, modelName, modelId, schemaFields) ==
  [record_id |-> record.id.n, model_name |-> modelName, model_id |-> modelId,
   vector_text |-> generateSemanticText(record, modelName, schemaFields),
   payload |-> PayloadOf(record, schemaFields)]

\* Faulty variant: records without id are transformed like the others.
transformRecordsAll(records, modelName, modelId, schemaFields) ==
  [x \in 1..Len(records) |-> TransformOne(records[x], modelName, modelId, schemaFields)]

\* Faulty variant: the transformed records come out last record first.
transformRecordsReversed(records, modelName, modelId, schemaFields) ==
  LET kept == SelectSeq(records, LAMBDA r : ~Falsy(r.id))
  IN [x \in 1..Len(kept) |->
        TransformOne(kept[Len(kept) + 1 - x], modelName, modelId, schemaFields)]

\* transformRecords, past its schema check: the records with a truthy id,
\* in input order, each transformed.
transformRecords(records, modelName, modelId, schemaFields) ==
  LET kept == SelectSeq(records, LAMBDA r : ~Falsy(r.id))
  IN [x \in 1..Len(kept) |-> TransformOne(kept[x], modelName, modelId, schemaFields)]

(* -------------------------- extractFkTargets --------------------------- *)

\* Faulty variant: every FK field adds an entry of its own.
MapSetAppend(fkTargets, targetModel, targetIds) ==
  Append(fkTargets, [model |-> targetModel, ids |-> targetIds])

\* Faulty variant: the ids of a later FK field replace those collected for
\* the same target model.
MapSetReplace(fkTargets, targetModel, targetIds) ==
  IF \E x \in 1..Len(fkTargets) : fkTargets[x].model = targetModel
  THEN [x \in 1..Len(fkTargets) |->
          IF fkTargets[x].model = targetModel
          THEN [model |-> targetModel, ids |-> targetIds]
          ELSE fkTargets[x]]
  ELSE Append(fkTargets, [model |-> targetModel, ids |-> targetIds])

\* fkTargets.set(targetModel, existing U targetIds): a Map keeps its keys in
\* the order of their first insertion.
MapSet(fkTargets, targetModel, targetIds) ==
  IF \E x \in 1..Len(fkTargets) : fkTargets[x].model = targetModel
  THEN [x \in 1..Len(fkTargets) |->
          IF fkTargets[x].model = targetModel
          THEN [model |-> targetModel, ids |-> fkTargets[x].ids \cup targetIds]
          ELSE fkTargets[x]]
  ELSE Append(fkTargets, [model |-> targetModel, ids |-> targetIds])

RECURSIVE CollectTargets(_, _, _)
CollectTargets(records, fkFields, fkTargets) ==
  IF fkFields = <<>> THEN fkTargets
  ELSE LET fkField == Head(fkFields)
           targetIds == FkIdsOf(records, fkField)
       IN CollectTargets(records, Tail(fkFields),
            IF fkField.fk_location_model = NoModel \/ targetIds = {}
            THEN fkTargets
            ELSE MapSet(fkTargets, fkField.fk_location_model, targetIds))

\* extractFkTargets: target model -> the FK ids to sync, in Map order.
extractFkTargets(records, schemaFields) ==
  CollectTargets(records, getFkFieldsFromSchema(schemaFields), <<>>)

(* ------------------------- updateKnowledgeGraph ------------------------ *)

\* The FK fields updateKnowledgeGraph walks: many2one with a target model
\* and a target model id.
GraphFkFields(schemaFields) ==
  SelectSeq(schemaFields, LAMBDA f :
    /\ f.field_type = "many2one"
    /\ f.fk_location_model # NoModel
    /\ f.fk_location_model_id # 0)

\* Faulty variant: edge_count counts the records that were transformed.
EdgeOfTransformed(modelName, modelId, records, fkField) ==
  [source_model |-> modelName, source_model_id |-> modelId,
   field_id |-> fkField.field_id, field_name |-> fkField.field_name,
   field_label |-> fkField.field_label, field_type |-> fkField.field_type,
   target_model |-> fkField.fk_location_model,
   target_model_id |-> fkField.fk_location_model_id,
   edge_count |-> Len(SelectSeq(records, LAMBDA r : ~Falsy(r.id))),
   unique_targets |-> Cardinality(FkIdsOf(records, fkField)),
   cascade_source |-> modelName]

\* The relationship handed to upsertRelationship for one FK field.
EdgeOf(modelName, modelId, records, fkField) ==
  [source_model |-> modelName, source_model_id |-> modelId,
   field_id |-> fkField.field_id, field_name |-> fkField.field_name,
   field_label |-> fkField.field_label, field_type |-> fkField.field_type,
   target_model |-> fkField.fk_location_model,
   target_model_id |-> fkField.fk_location_model_id,
   edge_count |-> Len(records),
   unique_targets |-> Cardinality(FkIdsOf(records, fkField)),
   cascade_source |-> modelName]

(* ------------------------------ the world ------------------------------ *)

\* getDefaultDataFilePath: samples/SAMPLE_<model>_data.xlsx.
getDefaultDataFilePath(modelName) ==
  CASE modelName = "A" -> "samples/SAMPLE_A_data.xlsx"
    [] modelName = "B" -> "samples/SAMPLE_B_data.xlsx"
    [] OTHER -> "samples/SAMPLE_C_data.xlsx"

CustomPath == "custom.xlsx"
Paths == {getDefaultDataFilePath(m) : m \in Models} \cup {CustomPath}

\* The FK columns the three schemas may declare.
DeclsA1 == {Absent} \cup {FkDecl(m, TRUE) : m \in Models}
DeclsA2 == {Absent, FkDecl("B", TRUE), FkDecl("C", TRUE), FkDecl("B", FALSE),
            FkDecl(NoModel, FALSE)}
DeclsB == {Absent, FkDecl("A", TRUE), FkDecl("C", TRUE)}

Graph(a1, a2, b) == [a1 |-> a1, a2 |-> a2, b |-> b]
Graphs == {Graph(a1, a2, b) : a1 \in DeclsA1, a2 \in DeclsA2, b \in DeclsB}
\* A -> B -> C, and A -> A with A -> B -> A.
Chain == Graph(FkDecl("B", TRUE), FkDecl("C", TRUE), FkDecl("C", TRUE))
Cycle == Graph(FkDecl("A", TRUE), FkDecl("B", TRUE), FkDecl("A", TRUE))

\* What may be wrong with one model: the registry does not know it, knows
\* no id for it, or no fields; its data file is missing, or holds no records.
DefectKinds == {"unknown", "noid", "nofields", "nofile", "empty"}
NoDefect == [model |-> NoModel, kind |-> "none"]
Defects == {NoDefect} \cup {[model |-> m, kind |-> k] : m \in Models, k \in DefectKinds}

\* The data files of the root model: one record with any FK cells, two
\* records of which the second may lack its id, and files of several batches.
FilesOne == {<<Row(Num(1), c1, c2)>> : c1 \in FkCells, c2 \in FkCells}
FilesTwo == {<<Row(Num(1), Num(1), Tup(1)), Row(id, c1, Null)>> :
               id \in {Num(2), Num(0), Undef}, c1 \in FkCells}
FilesBig == {BigFile(n, noId) :
               n \in {EMBEDDING_BATCH_SIZE, EMBEDDING_BATCH_SIZE + 1,
                      2 * EMBEDDING_BATCH_SIZE + 20},
               noId \in {{}, {2}}}
StdFileA == <<Row(Num(1), Num(1), Tup(1)), Row(Num(2), Num(1), Null)>>
StdFileB == <<Row(Num(1), Num(1), Null), Row(Num(2), Tup(1), Null)>>
StdFileC == <<Row(Num(1), Null, Null)>>

\* The names readdirSync may list: SAMPLE_<model>_data.xlsx, cut at the
\* places the two patterns of syncAllExcelData look at.
FileName(pre, model, suf) == [pre |-> pre, model |-> model, suf |-> suf]
DataFileName(m) == FileName("SAMPLE_", m, "_data.xlsx")
Readme == FileName("", "README", ".md")
SchemaFileName == FileName("SAMPLE_", "A", "_schema.xlsx")
NamelessDataFile == FileName("SAMPLE_", "", "_data.xlsx")

World(g, rowsA, d) ==
  LET Has(m, k) == d.model = m /\ d.kind = k
      rows == [m \in Models |->
                 CASE m = "A" -> rowsA [] m = "B" -> StdFileB [] OTHER -> StdFileC]
  IN [dataDir |-> TRUE,
      exists |-> [m \in Models |-> ~Has(m, "unknown")],
      id |-> [m \in Models |-> IF Has(m, "noid") THEN 0 ELSE RegistryId(m)],
      fields |-> [m \in Models |->
                    CASE Has(m, "nofields") -> <<>>
                      [] m = "A" -> FieldsOf(m, g.a1, g.a2)
                      [] m = "B" -> FieldsOf(m, g.b, Absent)
                      [] OTHER -> FieldsOf(m, Absent, Absent)],
      file |-> [p \in Paths |->
                  IF p = CustomPath THEN File(StdFileB)
                  ELSE LET m == CHOOSE x \in Models : getDefaultDataFilePath(x) = p
                       IN CASE Has(m, "nofile") -> MissingFile
                            [] Has(m, "empty") -> File(<<>>)
                            [] OTHER -> File(rows[m])]]

\* The data directory does not exist: no default file can be read.
NoDirWorld ==
  [World(Chain, StdFileA, NoDefect) EXCEPT
     !.dataDir = FALSE,
     !.file = [p \in Paths |-> IF p = CustomPath THEN File(StdFileB) ELSE MissingFile]]

\* A data file with a column named record_id beside its id column: one
\* record with id 1 whose record_id cell holds 7.
FileTagged ==
  <<[id |-> Num(1), f1 |-> Num(1), f2 |-> Null, record_id |-> Num(7)]>>

\* Both FK columns of A point at B, the second without target model id.
TwoToOne == Graph(FkDecl("B", TRUE), FkDecl("B", FALSE), Absent)

\* The worlds a run may start in: every FK graph over standard files, every
\* defect over two graphs, every small file of the root over one graph, one
\* record whose two FK columns point at the same model, a file with a
\* column named like a system field of the payload, the files of several
\* batches, and a world without data directory.
Worlds ==
  {NoDirWorld} \cup
  {World(g, StdFileA, NoDefect) : g \in Graphs}
  \cup {World(g, StdFileA, d) : g \in {Chain, Cycle}, d \in Defects}
  \cup {World(Chain, rows, NoDefect) : rows \in FilesOne \cup FilesTwo}
  \cup {World(TwoToOne, <<Row(Num(1), Num(1), c2)>>, NoDefect) : c2 \in FkCells}
  \cup {World(Chain, FileTagged, NoDefect)}
  \cup {World(Graph(FkDecl("B", TRUE), Absent, Absent), rows, NoDefect) : rows \in FilesBig}

(* ------------------------------ the state ------------------------------ *)

VARIABLES
  world,     \* the schema registry and the data files
  phase,     \* "idle", "running", "done"
  stack,     \* the active syncExcelData calls, the root call first
  outcome,   \* what the root call returned or threw
  calls,     \* every syncExcelData call made, in order
  returned,  \* every result returned and every error thrown, in order
  events,    \* every call of a collaborator, in order
  store,     \* the vector store: point id -> point
  edges,     \* the graph store: <<source model, field>> -> edge
  faults,    \* the external failures so far
  clock,     \* the time new Date() reads
  run,       \* the number of the root call, counted from 1
  prior,     \* what the root call before this one left behind
  all,       \* the syncAllExcelData call: its position and its locals
  conv       \* the convertSimpleSchemaToNexsus call: its input and its outcome

vars == <<world, phase, stack, outcome, calls, returned, events, store, edges, faults,
          clock, run, prior, all, conv>>

\* What belongs to the callers of syncExcelData and to the schema converter.
callers == <<run, prior, all, conv>>

NoResult == [kind |-> "none"]

\* The locals of a syncExcelData call at its start.
NewFrame(call, modelName, options) ==
  [call |-> call, model |-> modelName,
   dataFilePath |-> IF options.filePath # NoPath THEN options.filePath
                    ELSE getDefaultDataFilePath(modelName),
   skipCascade |-> options.skipCascade, dryRun |-> options.dryRun,
   pc |-> "modelExists", modelId |-> 0, records |-> <<>>, transformed |-> <<>>,
   i |-> 0, recordsSynced |-> 0, recordsFailed |-> 0, errors |-> <<>>,
   points |-> <<>>, fkFields |-> <<>>, k |-> 1, edgesCreated |-> 0,
   fkTargets |-> <<>>, t |-> 1, cascadedModels |-> <<>>]

Options(filePath, skipCascade, dryRun) ==
  [filePath |-> filePath, skipCascade |-> skipCascade, dryRun |-> dryRun]

Depth == Len(stack)
Top == stack[Len(stack)]
Running(pc) == phase = "running" /\ Depth > 0 /\ Top.pc = pc

\* A call of a collaborator by call `f.call`: transformRecords ("transform",
\* n records out), embedBatch and upsertToUnifiedCollection ("embed",
\* "upsert", batch n), upsertRelationship ("edge", FK field n),
\* ensureModelIndexes ("index"), extractFkTargets ("targets", n targets).
Event(op, f, n, ok) == [op |-> op, call |-> f.call, model |-> f.model, n |-> n, ok |-> ok]

\* The record of one syncExcelData call.
CallOf(f, depth) ==
  [model |-> f.model, depth |-> depth, path |-> f.dataFilePath,
   skipCascade |-> f.skipCascade, dryRun |-> f.dryRun]

\* No root call before the first one.
NoPrior == [keys |-> {}, clean |-> FALSE]

\* syncAllExcelData and convertSimpleSchemaToNexsus have not been called.
AllIdle ==
  [pc |-> "idle", options |-> Options(NoPath, FALSE, FALSE), files |-> <<>>,
   dataFiles |-> <<>>, j |-> 0, results |-> <<>>]
\* The argument of the schema converter: undefined, or an array of rows.
SchemaArg(defined, rows) == [defined |-> defined, rows |-> rows]
NoValidation == [valid |-> TRUE, errors |-> <<>>, warnings |-> <<>>]
ConvInput(arg) ==
  [pc |-> "idle", arg |-> arg, validation |-> NoValidation, converted |-> <<>>]
ConvIdle == ConvInput(SchemaArg(FALSE, <<>>))

\* No syncExcelData call has been made.
Quiet ==
  /\ phase = "idle"
  /\ stack = <<>>
  /\ outcome = NoResult
  /\ calls = <<>>
  /\ returned = <<>>
  /\ events = <<>>
  /\ store = <<>>
  /\ edges = <<>>
  /\ faults = 0
  /\ clock = 0
  /\ run = 1
  /\ prior = NoPrior
  /\ all = AllIdle

\* Nothing has been called yet.
Start == Quiet /\ conv = ConvIdle

Init == world \in Worlds /\ Start

(* ------------------------- results and returns ------------------------- *)

SyncResult(f, success, modelId, read, synced, failed, errors, cascaded) ==
  [success |-> success, model_name |-> f.model, model_id |-> modelId,
   file_path |-> f.dataFilePath, records_read |-> read, records_synced |-> synced,
   records_failed |-> failed, errors |-> errors, cascaded_models |-> cascaded]

\* Faulty variant: the early return carries no error entry.
FailedResultSilent(f, modelId, error) ==
  SyncResult(f, FALSE, modelId, 0, 0, 0, <<>>, <<>>)

\* The early returns of a call that cannot sync: one error, no progress.
FailedResult(f, modelId, error) ==
  SyncResult(f, FALSE, modelId, 0, 0, 0, <<[batch |-> 0, msg |-> error]>>, <<>>)

\* The return for a file without records.
EmptyResult(f) == SyncResult(f, TRUE, f.modelId, 0, 0, 0, <<>>, <<>>)

\* The return of a dry run.
DryRunResult(f) == SyncResult(f, TRUE, f.modelId, Len(f.records), 0, 0, <<>>, <<>>)

\* Faulty variant: success when anything was synced.
FinalResultLenient(f) ==
  SyncResult(f, f.recordsSynced > 0, f.modelId, Len(f.records), f.recordsSynced,
             f.recordsFailed, f.errors, f.cascadedModels)

\* The result at the end of a full sync.
FinalResult(f) ==
  SyncResult(f, Len(f.errors) = 0, f.modelId, Len(f.records), f.recordsSynced,
             f.recordsFailed, f.errors, f.cascadedModels)

\* The cascade loop moves to its next target, or the call to its result.
NextTarget(f) ==
  [f EXCEPT !.t = @ + 1,
            !.pc = IF f.t + 1 <= Len(f.fkTargets) THEN "nested" ELSE "finish"]

\* Faulty variant: every nested call that returned is listed.
AfterNestedResultAny(f, cascadeResult) ==
  NextTarget([f EXCEPT !.cascadedModels =
                Append(@, [model_name |-> f.fkTargets[f.t].model,
                           records_synced |-> cascadeResult.records_synced])])

\* The root's handling of a nested call that returned: a successful target
\* is listed in cascadedModels.
AfterNestedResult(f, cascadeResult) ==
  NextTarget(
    IF cascadeResult.success
    THEN [f EXCEPT !.cascadedModels =
            Append(@, [model_name |-> f.fkTargets[f.t].model,
                       records_synced |-> cascadeResult.records_synced])]
    ELSE f)

\* The root's handling of a nested call that threw: logged only.
AfterNestedThrow(f) == NextTarget(f)

\* The top call returns `result`: to the caller of the root call, or to the
\* cascade loop of the call below it.
Return(result) ==
  /\ returned' = Append(returned, [kind |-> "result", call |-> Top.call,
                                   result |-> result])
  /\ IF Depth = 1
     THEN /\ stack' = <<>>
          /\ outcome' = [kind |-> "result", result |-> result]
          /\ phase' = "done"
     ELSE /\ stack' = Append(SubSeq(stack, 1, Depth - 2),
                             AfterNestedResult(stack[Depth - 1], result))
          /\ UNCHANGED <<outcome, phase>>

\* The top call throws: out of the root call, or into the catch of the
\* cascade loop of the call below it.
Throw(error) ==
  /\ returned' = Append(returned, [kind |-> "throw", call |-> Top.call,
                                   error |-> error])
  /\ IF Depth = 1
     THEN /\ stack' = <<>>
          /\ outcome' = [kind |-> "throw", error |-> error]
          /\ phase' = "done"
     ELSE /\ stack' = Append(SubSeq(stack, 1, Depth - 2),
                             AfterNestedThrow(stack[Depth - 1]))
          /\ UNCHANGED <<outcome, phase>>

SetTop(f) == stack' = [stack EXCEPT ![Len(stack)] = f]

(* ---------------------------- syncExcelData ---------------------------- *)

RootModels == {"A", "B"}

\* A caller invokes syncExcelData(modelName, options).
Call(modelName, options) ==
  /\ phase = "idle" /\ all.pc = "idle"
  /\ phase' = "running"
  /\ stack' = <<NewFrame(1, modelName, options)>>
  /\ calls' = <<CallOf(NewFrame(1, modelName, options), 1)>>
  /\ UNCHANGED <<world, clock, callers, outcome, returned, events, store, edges, faults>>

\* modelExistsInSchema: an unknown model is a failed result.
ModelExists ==
  /\ Running("modelExists")
  /\ IF world.exists[Top.model]
     THEN /\ SetTop([Top EXCEPT !.pc = "getModelId"])
          /\ UNCHANGED <<outcome, phase, returned>>
     ELSE Return(FailedResult(Top, 0, "not found in schema"))
  /\ UNCHANGED <<world, clock, callers, calls, events, store, edges, faults>>

\* getModelIdFromSchema: a model without id is a failed result.
GetModelId ==
  /\ Running("getModelId")
  /\ LET modelId == world.id[Top.model]
     IN IF modelId # 0
        THEN /\ SetTop([Top EXCEPT !.pc = "read", !.modelId = modelId])
             /\ UNCHANGED <<outcome, phase, returned>>
        ELSE Return(FailedResult(Top, 0, "could not get model id"))
  /\ UNCHANGED <<world, clock, callers, calls, events, store, edges, faults>>

\* Faulty variant: the dry run is not honoured.
AfterReadNoDryRun(file, dryRun) ==
  IF ~file.present THEN "missing"
  ELSE IF Len(file.rows) = 0 THEN "empty"
  ELSE "sync"

\* Faulty variant: a file without records is synced like any other.
AfterReadSyncsEmpty(file, dryRun) ==
  IF ~file.present THEN "missing"
  ELSE IF dryRun THEN "dryRun"
  ELSE "sync"

\* What follows readExcelData: the failed result of a missing file, the
\* result of a file without records, the result of a dry run, or the sync.
AfterRead(file, dryRun) ==
  IF ~file.present THEN "missing"
  ELSE IF Len(file.rows) = 0 THEN "empty"
  ELSE IF dryRun THEN "dryRun"
  ELSE "sync"

\* readExcelData and the two short returns after it: a missing file is a
\* failed result, a file without records and a dry run are results.
ReadData ==
  /\ Running("read")
  /\ LET file == world.file[Top.dataFilePath]
         f == [Top EXCEPT !.records = file.rows]
         way == AfterRead(file, Top.dryRun)
     IN CASE way = "missing" ->
               Return(FailedResult(Top, Top.modelId, "data file not found"))
          [] way = "empty" -> Return(EmptyResult(f))
          [] way = "dryRun" -> Return(DryRunResult(f))
          [] OTHER -> /\ SetTop([f EXCEPT !.pc = "transform"])
                      /\ UNCHANGED <<outcome, phase, returned>>
  /\ UNCHANGED <<world, clock, callers, calls, events, store, edges, faults>>

\* Faulty variant: a sync with a failed batch goes straight to its result.
LoopPcStopsOnError(f) ==
  IF f.i < Len(f.transformed) THEN "embed"
  ELSE IF Len(f.errors) > 0 THEN "finish" ELSE "graph"

\* The batch loop's head: the next batch, or on to the knowledge graph.
LoopPc(f) == IF f.i < Len(f.transformed) THEN "embed" ELSE "graph"

\* Faulty variant: a schema without fields is transformed like any other.
AnySchemaFields(schemaFields) == FALSE

\* !schemaFields || schemaFields.length === 0
NoSchemaFields(schemaFields) == Len(schemaFields) = 0

\* transformRecords: throws when the schema has no fields for the model.
Transform ==
  /\ Running("transform")
  /\ LET schemaFields == world.fields[Top.model]
     IN IF NoSchemaFields(schemaFields)
        THEN /\ Throw("no schema fields")
             /\ UNCHANGED events
        ELSE LET f == [Top EXCEPT !.transformed =
                         transformRecords(Top.records, Top.model, Top.modelId,
                                          schemaFields),
                       !.i = 0]
             IN /\ SetTop([f EXCEPT !.pc = LoopPc(f)])
                /\ events' = Append(events, Event("transform", Top, Len(f.transformed), TRUE))
                /\ UNCHANGED <<outcome, phase, returned>>
  /\ UNCHANGED <<world, clock, callers, calls, store, edges, faults>>

(* --------------------------- the batch loop ---------------------------- *)

\* transformed.slice(i, i + EMBEDDING_BATCH_SIZE)
BatchOf(f) ==
  SubSeq(f.transformed, f.i + 1, Min(f.i + EMBEDDING_BATCH_SIZE, Len(f.transformed)))

\* Math.floor(i / EMBEDDING_BATCH_SIZE) + 1
BatchNum(f) == (f.i \div EMBEDDING_BATCH_SIZE) + 1

\* i += EMBEDDING_BATCH_SIZE, and the loop's test.
NextBatch(f) ==
  LET g == [f EXCEPT !.i = @ + EMBEDDING_BATCH_SIZE, !.points = <<>>]
  IN [g EXCEPT !.pc = LoopPc(g)]

\* Faulty variant: the catch counts the records and drops the error.
CatchBatchSilent(f, errorMsg) ==
  [f EXCEPT !.recordsFailed = @ + Len(BatchOf(f))]

\* The catch of the batch's try: one error naming the batch, its records
\* counted as failed.
CatchBatch(f, errorMsg) ==
  [f EXCEPT !.errors = Append(@, [batch |-> BatchNum(f), msg |-> errorMsg]),
            !.recordsFailed = @ + Len(BatchOf(f))]

\* Faulty variant: a committed batch counts as a full batch.
BatchSyncedFull(f) == [f EXCEPT !.recordsSynced = @ + EMBEDDING_BATCH_SIZE]

\* After upsertToUnifiedCollection returned.
BatchSynced(f) == [f EXCEPT !.recordsSynced = @ + Len(BatchOf(f))]

\* The vector the embedding service returns for a text.
Embedding(text) == [of |-> text]

\* new Date().toISOString() at time `now`.
Timestamp(now) == Val("time", now, 0, "")

\* Faulty variant: the point id is derived from the record and the time of
\* the sync.
PointOfStamped(record, vector, now) ==
  [id |-> [kind |-> "uuid", n |-> record.record_id, m |-> record.model_id,
           s |-> "data", t |-> now],
   vector |-> vector, payload |-> record.payload]

\* The point of one record of the batch, built at time `now`: the record's
\* payload is spread over the system fields.
PointOf(record, vector, now) ==
  LET pointId == buildDataUuidV2(record.model_id, record.record_id)
      system == [point_id |-> pointId, point_type |-> Str("data"),
                 record_id |-> Num(record.record_id),
                 model_name |-> Str(record.model_name),
                 model_id |-> Num(record.model_id),
                 vector_text |-> record.vector_text,
                 sync_timestamp |-> Timestamp(now)]
  IN [id |-> pointId, vector |-> vector,
      payload |-> [k \in DOMAIN system \cup DOMAIN record.payload |->
                     IF k \in DOMAIN record.payload THEN record.payload[k]
                     ELSE system[k]]]

\* Faulty variant: the vectors are paired with the records from the end.
PointsOfReversed(batch, embeddings, now) ==
  [x \in 1..Len(batch) |-> PointOf(batch[x], embeddings[Len(batch) + 1 - x], now)]

\* batch.map((record, idx) => point with embeddings[idx])
PointsOf(batch, embeddings, now) ==
  [x \in 1..Len(batch) |-> PointOf(batch[x], embeddings[x], now)]

\* upsertToUnifiedCollection: a point replaces the point of the same id.
Upserted(points) ==
  LET ids == {points[x].id : x \in 1..Len(points)}
      LastAt(id) == CHOOSE x \in 1..Len(points) :
                      /\ points[x].id = id
                      /\ \A y \in 1..Len(points) : points[y].id = id => y <= x
  IN [id \in DOMAIN store \cup ids |->
        IF id \in ids THEN [vector |-> points[LastAt(id)].vector,
                            payload |-> points[LastAt(id)].payload]
        ELSE store[id]]

\* embedBatch returns one vector per text, in the order of the texts.
EmbedBatch ==
  /\ Running("embed")
  /\ LET batch == BatchOf(Top)
         embeddings == [x \in 1..Len(batch) |-> Embedding(batch[x].vector_text)]
     IN SetTop([Top EXCEPT !.points = PointsOf(batch, embeddings, clock), !.pc = "upsert"])
  /\ clock' = clock + 1
  /\ events' = Append(events, Event("embed", Top, BatchNum(Top), TRUE))
  /\ UNCHANGED <<world, callers, phase, outcome, calls, returned, store, edges, faults>>

\* embedBatch throws: the batch fails.
EmbedBatchThrows ==
  /\ Running("embed")
  /\ faults < MaxFaults
  /\ faults' = faults + 1
  /\ SetTop(NextBatch(CatchBatch(Top, "embedding service error")))
  /\ events' = Append(events, Event("embed", Top, BatchNum(Top), FALSE))
  /\ UNCHANGED <<world, clock, callers, phase, outcome, calls, returned, store, edges>>

\* embedBatch returns a vector too few or a vector too many: the count
\* check fails the batch.
EmbedBatchMismatch ==
  /\ Running("embed")
  /\ faults < MaxFaults
  /\ faults' = faults + 1
  /\ \E n \in {Len(BatchOf(Top)) - 1, Len(BatchOf(Top)) + 1} :
       LET batch == BatchOf(Top)
           embeddings == [x \in 1..n |->
                            Embedding(batch[Min(x, Len(batch))].vector_text)]
       IN IF Len(embeddings) # Len(batch)
          THEN SetTop(NextBatch(CatchBatch(Top, "embedding count mismatch")))
          ELSE SetTop([Top EXCEPT !.points = PointsOf(batch, embeddings, clock),
                                  !.pc = "upsert"])
  /\ events' = Append(events, Event("embed", Top, BatchNum(Top), TRUE))
  /\ UNCHANGED <<world, clock, callers, phase, outcome, calls, returned, store, edges>>

\* upsertToUnifiedCollection writes the batch's points in one call.
UpsertBatch ==
  /\ Running("upsert")
  /\ store' = Upserted(Top.points)
  /\ SetTop(NextBatch(BatchSynced(Top)))
  /\ events' = Append(events, Event("upsert", Top, BatchNum(Top), TRUE))
  /\ UNCHANGED <<world, clock, callers, phase, outcome, calls, returned, edges, faults>>

\* upsertToUnifiedCollection throws: the batch fails, nothing is written.
UpsertBatchThrows ==
  /\ Running("upsert")
  /\ faults < MaxFaults
  /\ faults' = faults + 1
  /\ SetTop(NextBatch(CatchBatch(Top, "store write error")))
  /\ events' = Append(events, Event("upsert", Top, BatchNum(Top), FALSE))
  /\ UNCHANGED <<world, clock, callers, phase, outcome, calls, returned, store, edges>>

(* ------------------- knowledge graph and indexes ----------------------- *)

\* Faulty variant: after the last FK field the call goes straight to its
\* cascade.
NextEdgeSkipsIndex(f) ==
  [f EXCEPT !.k = @ + 1,
            !.pc = IF f.k + 1 <= Len(f.fkFields) THEN "edge" ELSE "cascade"]

\* The loop over the FK fields moves on, or the call to its indexes.
NextEdge(f) ==
  [f EXCEPT !.k = @ + 1,
            !.pc = IF f.k + 1 <= Len(f.fkFields) THEN "edge" ELSE "index"]

\* edgesCreated++ after upsertRelationship returned.
EdgeCreated(f) == [f EXCEPT !.edgesCreated = @ + 1]

\* Faulty variant: a failed edge is reported as an error of the sync.
CatchEdgeAsError(f) ==
  [f EXCEPT !.errors = Append(@, [batch |-> 0, msg |-> "graph edge failed"])]

\* The catch of one field's upsertRelationship: a warning only.
CatchEdge(f) == f

\* getModelFieldsFromSchema once more; with fields, updateKnowledgeGraph
\* starts on its FK fields, without, the call goes on to the cascade.
GraphFields ==
  /\ Running("graph")
  /\ LET schemaFields == world.fields[Top.model]
         fkFields == GraphFkFields(schemaFields)
     IN SetTop([Top EXCEPT !.fkFields = fkFields, !.k = 1, !.edgesCreated = 0,
                  !.pc = IF Len(schemaFields) = 0 THEN "cascade"
                         ELSE IF Len(fkFields) > 0 THEN "edge" ELSE "index"])
  /\ UNCHANGED <<world, clock, callers, phase, outcome, calls, returned, events, store, edges, faults>>

\* An FK field no record resolves gets no edge.
EdgeSkip ==
  /\ Running("edge")
  /\ FkIdsOf(Top.records, Top.fkFields[Top.k]) = {}
  /\ SetTop(NextEdge(Top))
  /\ UNCHANGED <<world, clock, callers, phase, outcome, calls, returned, events, store, edges, faults>>

\* upsertRelationship writes the field's edge.
EdgeUpsert ==
  /\ Running("edge")
  /\ FkIdsOf(Top.records, Top.fkFields[Top.k]) # {}
  /\ LET edge == EdgeOf(Top.model, Top.modelId, Top.records, Top.fkFields[Top.k])
         key == <<edge.source_model, edge.field_name>>
     IN edges' = [e \in DOMAIN edges \cup {key} |-> IF e = key THEN edge ELSE edges[e]]
  /\ SetTop(NextEdge(EdgeCreated(Top)))
  /\ events' = Append(events, Event("edge", Top, Top.k, TRUE))
  /\ UNCHANGED <<world, clock, callers, phase, outcome, calls, returned, store, faults>>

\* upsertRelationship throws: caught for this field.
EdgeUpsertThrows ==
  /\ Running("edge")
  /\ FkIdsOf(Top.records, Top.fkFields[Top.k]) # {}
  /\ faults < MaxFaults
  /\ faults' = faults + 1
  /\ SetTop(NextEdge(CatchEdge(Top)))
  /\ events' = Append(events, Event("edge", Top, Top.k, FALSE))
  /\ UNCHANGED <<world, clock, callers, phase, outcome, calls, returned, store, edges>>

\* ensureModelIndexes returns.
EnsureIndexes ==
  /\ Running("index")
  /\ SetTop([Top EXCEPT !.pc = "cascade"])
  /\ events' = Append(events, Event("index", Top, 0, TRUE))
  /\ UNCHANGED <<world, clock, callers, phase, outcome, calls, returned, store, edges, faults>>

\* ensureModelIndexes throws: nothing in syncExcelData catches it.
EnsureIndexesThrows ==
  /\ Running("index")
  /\ faults < MaxFaults
  /\ faults' = faults + 1
  /\ Throw("index service error")
  /\ events' = Append(events, Event("index", Top, 0, FALSE))
  /\ UNCHANGED <<world, clock, callers, calls, store, edges>>

(* ----------------------------- FK cascade ------------------------------ *)

\* Faulty variant: the nested call inherits the caller's skipCascade.
NestedOptionsInherited(f) == Options(NoPath, f.skipCascade, f.dryRun)

\* The options of the nested call: cascade off, the caller's dryRun, no
\* file path.
NestedOptions(f) == Options(NoPath, TRUE, f.dryRun)

\* Faulty variant: the cascade ignores skipCascade.
CascadeAlways(f) == TRUE

\* if (!skipCascade)
CascadeEnabled(f) == ~f.skipCascade

\* Faulty variant: a target equal to the model being synced is left out.
TargetsOfOthers(f) ==
  SelectSeq(extractFkTargets(f.records, world.fields[f.model]),
            LAMBDA target : target.model # f.model)

\* const fkTargets = await extractFkTargets(records, modelName)
TargetsOf(f) == extractFkTargets(f.records, world.fields[f.model])

\* Unless skipped, extractFkTargets, then the loop over its targets.
Cascade ==
  /\ Running("cascade")
  /\ IF ~CascadeEnabled(Top)
     THEN /\ SetTop([Top EXCEPT !.pc = "finish"])
          /\ UNCHANGED events
     ELSE LET fkTargets == TargetsOf(Top)
          IN /\ SetTop([Top EXCEPT !.fkTargets = fkTargets, !.t = 1,
                          !.pc = IF Len(fkTargets) > 0 THEN "nested" ELSE "finish"])
             /\ events' = Append(events, Event("targets", Top, Len(fkTargets), TRUE))
  /\ UNCHANGED <<world, clock, callers, phase, outcome, calls, returned, store, edges, faults>>

\* The nested syncExcelData call for the next target model.
NestedCall ==
  /\ Running("nested")
  /\ LET targetModel == Top.fkTargets[Top.t].model
         options == NestedOptions(Top)
         nested == NewFrame(Len(calls) + 1, targetModel, options)
     IN /\ stack' = Append([stack EXCEPT ![Len(stack)].pc = "awaitNested"], nested)
        /\ calls' = Append(calls, CallOf(nested, Depth + 1))
  /\ UNCHANGED <<world, clock, callers, phase, outcome, returned, events, store, edges, faults>>

\* The call returns its result.
Finish ==
  /\ Running("finish")
  /\ Return(FinalResult(Top))
  /\ UNCHANGED <<world, clock, callers, calls, events, store, edges, faults>>

\* The steps of the running syncExcelData calls.
Step ==
  \/ ModelExists
  \/ GetModelId
  \/ ReadData
  \/ Transform
  \/ EmbedBatch
  \/ EmbedBatchThrows
  \/ EmbedBatchMismatch
  \/ UpsertBatch
  \/ UpsertBatchThrows
  \/ GraphFields
  \/ EdgeSkip
  \/ EdgeUpsert
  \/ EdgeUpsertThrows
  \/ EnsureIndexes
  \/ EnsureIndexesThrows
  \/ Cascade
  \/ NestedCall
  \/ Finish

Next ==
  \/ \E m \in RootModels, p \in {NoPath, CustomPath}, sc \in BOOLEAN, dr \in BOOLEAN :
       Call(m, Options(p, sc, dr))
  \/ Step

Spec == Init /\ [][Next]_vars

\* Every await of the source settles: a step that can be taken is taken.
FairSpec == Spec /\ WF_vars(Next)

(* ------------------------ a second root call -------------------------- *)

\* A root call starts: the history of the call before it is dropped.
StartRoot(modelName, options) ==
  /\ phase' = "running"
  /\ stack' = <<NewFrame(1, modelName, options)>>
  /\ calls' = <<CallOf(NewFrame(1, modelName, options), 1)>>
  /\ returned' = <<>>
  /\ events' = <<>>
  /\ outcome' = NoResult

\* Every batch whose embeddings were asked for reached the store.
AllCommitted ==
  \A x \in 1..Len(events) :
    events[x].op = "embed" =>
      \E y \in 1..Len(events) :
        /\ events[y].op = "upsert" /\ events[y].ok
        /\ events[y].call = events[x].call /\ events[y].n = events[x].n

\* The caller invokes syncExcelData once more, on the same model and file
\* with the same options, after the call before has returned or thrown.
Resync ==
  /\ phase = "done"
  /\ run < MaxRuns
  /\ run' = run + 1
  /\ prior' = [keys |-> DOMAIN store,
               clean |-> outcome.kind = "result" /\ AllCommitted]
  /\ StartRoot(calls[1].model,
               Options(calls[1].path, calls[1].skipCascade, calls[1].dryRun))
  /\ UNCHANGED <<world, store, edges, faults, clock, all, conv>>

\* The worlds a model is synced twice in: two FK graphs with every defect,
\* the files of two records, and a file of several batches.
ResyncWorlds ==
  {World(g, StdFileA, d) : g \in {Chain, Cycle}, d \in Defects}
  \cup {World(Chain, rows, NoDefect) : rows \in FilesTwo}
  \cup {World(Graph(FkDecl("B", TRUE), Absent, Absent),
               BigFile(2 * EMBEDDING_BATCH_SIZE + 20, {2}), NoDefect)}

ResyncInit == world \in ResyncWorlds /\ Start

ResyncNext == Next \/ Resync

ResyncSpec == ResyncInit /\ [][ResyncNext]_vars

(* -------------------------- syncAllExcelData --------------------------- *)

\* /^SAMPLE_.*_data\.xlsx$/ and /^SAMPLE_(.+)_data\.xlsx$/: the second
\* gives the model name, NoModel when it does not match.
MatchesDataFile(file) == file.pre = "SAMPLE_" /\ file.suf = "_data.xlsx"
MatchModel(file) ==
  IF file.pre = "SAMPLE_" /\ file.suf = "_data.xlsx" /\ file.model # ""
  THEN file.model ELSE NoModel

\* What readdirSync may return for the data directory: the data files that
\* exist, in either order of their names, among other files.
Listings(w) ==
  LET asc == SelectSeq(<<"A", "B", "C">>, LAMBDA m : w.file[getDefaultDataFilePath(m)].present)
      desc == SelectSeq(<<"C", "B", "A">>, LAMBDA m : w.file[getDefaultDataFilePath(m)].present)
  IN {<<Readme>> \o [x \in 1..Len(asc) |-> DataFileName(asc[x])] \o <<NamelessDataFile>>,
      <<SchemaFileName>> \o [x \in 1..Len(desc) |-> DataFileName(desc[x])]}

\* Faulty variant: the caller's skipCascade is passed on.
SyncAllOptionsAsGiven(options) == options

\* { ...options, skipCascade: true }
SyncAllOptions(options) == [options EXCEPT !.skipCascade = TRUE]

\* The loop over dataFiles from position j: the files without model name
\* are passed over, the first other file is synced, and without such a file
\* the results are returned.
AllAdvance(a, j) ==
  LET rest == {x \in j..Len(a.dataFiles) : MatchModel(a.dataFiles[x]) # NoModel}
  IN IF rest = {}
     THEN /\ all' = [a EXCEPT !.pc = "returned", !.j = Len(a.dataFiles) + 1]
          /\ UNCHANGED <<phase, stack, calls, returned, events, outcome>>
     ELSE LET x == CHOOSE y \in rest : \A z \in rest : y <= z
          IN /\ all' = [a EXCEPT !.pc = "await", !.j = x]
             /\ StartRoot(MatchModel(a.dataFiles[x]), SyncAllOptions(a.options))

\* syncAllExcelData(options): without data directory no results; else the
\* directory is listed, filtered, and the first data file synced.
SyncAllCall(options, files) ==
  /\ phase = "idle" /\ all.pc = "idle"
  /\ IF ~world.dataDir
     THEN /\ all' = [all EXCEPT !.pc = "returned", !.options = options]
          /\ UNCHANGED <<phase, stack, calls, returned, events, outcome>>
     ELSE AllAdvance([all EXCEPT !.options = options, !.files = files,
                                 !.dataFiles = SelectSeq(files, MatchesDataFile)], 1)
  /\ UNCHANGED <<world, store, edges, faults, clock, run, prior, conv>>

\* The awaited syncExcelData has settled: its result is pushed and the loop
\* goes on; its error is thrown on by syncAllExcelData.
SyncAllResume ==
  /\ all.pc = "await" /\ phase = "done"
  /\ IF outcome.kind = "result"
     THEN AllAdvance([all EXCEPT !.results = Append(@, outcome.result)], all.j + 1)
     ELSE /\ all' = [all EXCEPT !.pc = "threw"]
          /\ UNCHANGED <<phase, stack, calls, returned, events, outcome>>
  /\ UNCHANGED <<world, store, edges, faults, clock, run, prior, conv>>

\* The worlds of a caller that calls syncAllExcelData, or syncExcelData
\* itself: one FK graph with every defect, and no data directory.
SyncAllWorlds == {NoDirWorld} \cup {World(Chain, StdFileA, d) : d \in Defects}

SyncAllInit == world \in SyncAllWorlds /\ Start

SyncAllNext ==
  \/ \E p \in {NoPath, CustomPath}, sc \in BOOLEAN, dr \in BOOLEAN,
        files \in Listings(world) :
       SyncAllCall(Options(p, sc, dr), files)
  \/ SyncAllResume
  \/ Next

SyncAllSpec == SyncAllInit /\ [][SyncAllNext]_vars

(* ---------------------- simple schema converter ------------------------ *)

FkModelColumn == "FK location field model"
FkModelIdColumn == "FK location field model id"
FkRecordIdColumn == "FK location record Id"

\* ` ${fieldName}`: the header with a leading space.
Spaced(fieldName) ==
  CASE fieldName = FkModelColumn -> " FK location field model"
    [] fieldName = FkModelIdColumn -> " FK location field model id"
    [] fieldName = FkRecordIdColumn -> " FK location record Id"
    [] OTHER -> fieldName

\* Faulty variant: only the exact header is tried.
getFkFieldExact(row, fieldName) == Cell(row, fieldName)

\* getFkField: the column under its exact name, else under the name with a
\* leading space, else undefined.
getFkField(row, fieldName) ==
  IF Cell(row, fieldName) # Undef THEN Cell(row, fieldName)
  ELSE IF Cell(row, Spaced(fieldName)) # Undef THEN Cell(row, Spaced(fieldName))
  ELSE Undef

\* isNaN(v) for a number, NaN or a string; '' converts to 0.
IsNaN(v) == v.kind = "nan" \/ (v.kind = "str" /\ v.s # "")

\* s.trim() and s.toLowerCase() over the strings of the schemas.
Trim(s) == IF s = " " THEN "" ELSE s
ToLowerCase(s) ==
  CASE s = "Many2One" -> "many2one" [] s = "Yes" -> "yes" [] OTHER -> s

\* !v || v.trim() === ''
Blank(v) == Falsy(v) \/ (v.kind = "str" /\ Trim(v.s) = "")

\* An error or a warning of the validation: what is wrong, in which Excel
\* row and column, and for a duplicate the row of the first occurrence.
Message(kind, rowNum, column, first) ==
  [kind |-> kind, row |-> rowNum, column |-> column, first |-> first]

\* Faulty variant: a warning makes the schema invalid.
WarnInvalid(result, warning) ==
  [result EXCEPT !.valid = FALSE, !.warnings = Append(@, warning)]

\* result.warnings.push(...)
Warn(result, warning) == [result EXCEPT !.warnings = Append(@, warning)]

\* result.valid = false; result.errors.push(...)
Fail(result, error) == [result EXCEPT !.valid = FALSE, !.errors = Append(@, error)]

\* Faulty variant: a field is identified by its id within its model.
FieldIdOfModelKey(row) == <<Cell(row, "Field_ID"), Cell(row, "Model_ID")>>

\* The key of fieldIdMap.
FieldIdKey(row) == Cell(row, "Field_ID")

\* fieldIdMap.has and fieldIdMap.get over the entries <<key, rowNum>>.
MapHas(fieldIdMap, key) == \E e \in fieldIdMap : e[1] = key
MapGet(fieldIdMap, key) == (CHOOSE e \in fieldIdMap : e[1] = key)[2]

\* Validation of Field_ID: missing, not a number, or seen before.
CheckFieldId(result, row, rowNum, fieldIdMap) ==
  LET v == Cell(row, "Field_ID")
  IN IF v.kind \in {"undef", "null"}
     THEN Fail(result, Message("missing", rowNum, "Field_ID", 0))
     ELSE IF IsNaN(v)
     THEN Fail(result, Message("not a number", rowNum, "Field_ID", 0))
     ELSE IF MapHas(fieldIdMap, FieldIdKey(row))
     THEN Fail(result, Message("duplicate", rowNum, "Field_ID",
                               MapGet(fieldIdMap, FieldIdKey(row))))
     ELSE result

\* fieldIdMap.set(row.Field_ID, rowNum) for a numeric Field_ID not yet seen.
NextFieldIdMap(row, rowNum, fieldIdMap) ==
  LET v == Cell(row, "Field_ID")
  IN IF v.kind \notin {"undef", "null"} /\ ~IsNaN(v)
        /\ ~MapHas(fieldIdMap, FieldIdKey(row))
     THEN fieldIdMap \cup {<<FieldIdKey(row), rowNum>>}
     ELSE fieldIdMap

\* Validation of Model_ID: missing, or not a number.
CheckModelId(result, row, rowNum) ==
  LET v == Cell(row, "Model_ID")
  IN IF v.kind \in {"undef", "null"}
     THEN Fail(result, Message("missing", rowNum, "Model_ID", 0))
     ELSE IF IsNaN(v)
     THEN Fail(result, Message("not a number", rowNum, "Model_ID", 0))
     ELSE result

\* Validation of a required string column.
CheckRequired(result, row, rowNum, column) ==
  IF Blank(Cell(row, column))
  THEN Fail(result, Message("missing or empty", rowNum, column, 0))
  ELSE result

\* row.Field_Type?.toLowerCase() is one of the relational types.
IsFkField(row) ==
  LET type == Cell(row, "Field_Type")
  IN type.kind = "str" /\ ToLowerCase(type.s) \in {"many2one", "many2many", "one2many"}

\* Validation of the FK metadata of a relational field: warnings only.
CheckFkMetadata(result, row, rowNum) ==
  LET fkModel == getFkField(row, FkModelColumn)
      fkModelId == getFkField(row, FkModelIdColumn)
      fkRecordId == getFkField(row, FkRecordIdColumn)
      r1 == IF Falsy(fkModel)
            THEN Warn(result, Message("missing", rowNum, FkModelColumn, 0))
            ELSE result
      r2 == IF fkModelId.kind \in {"undef", "null"}
            THEN Warn(r1, Message("missing", rowNum, FkModelIdColumn, 0))
            ELSE r1
      r3 == IF fkRecordId.kind \in {"undef", "null"}
            THEN Warn(r2, Message("missing", rowNum, FkRecordIdColumn, 0))
            ELSE r2
  IN IF IsFkField(row) THEN r3 ELSE result

\* The body of rows.forEach for the row at `index` (counted from 1; its
\* Excel row is one more, the header being row 1).
CheckRow(result, row, index, fieldIdMap) ==
  LET rowNum == index + 1
      r1 == CheckFieldId(result, row, rowNum, fieldIdMap)
      r2 == CheckModelId(r1, row, rowNum)
      r3 == CheckRequired(r2, row, rowNum, "Field_Name")
      r4 == CheckRequired(r3, row, rowNum, "Field_Type")
      r5 == CheckRequired(r4, row, rowNum, "Model_Name")
  IN CheckFkMetadata(r5, row, rowNum)

RECURSIVE ForEachRow(_, _, _, _)
\* rows.forEach from the row at `index` on.
ForEachRow(rows, index, fieldIdMap, result) ==
  IF index > Len(rows) THEN result
  ELSE ForEachRow(rows, index + 1,
                  NextFieldIdMap(rows[index], index + 1, fieldIdMap),
                  CheckRow(result, rows[index], index, fieldIdMap))

\* validateSimpleSchema
validateSimpleSchema(arg) ==
  IF ~arg.defined \/ Len(arg.rows) = 0
  THEN [valid |-> FALSE, errors |-> <<Message("empty", 0, "", 0)>>, warnings |-> <<>>]
  ELSE ForEachRow(arg.rows, 1, {}, NoValidation)

\* buildSchemaUuidV2Simple and buildSchemaFkRefUuidV2: the identity of a
\* schema field from its field id and model id, and of an FK reference from
\* the target model id and record id.
buildSchemaUuidV2Simple(fieldId, modelId) == Val("uuid", fieldId.n, modelId.n, "schema")
buildSchemaFkRefUuidV2(fkModelId, fkRecordId) == Val("uuid", fkRecordId.n, fkModelId.n, "fkref")

\* The FK reference id of a row: built when neither the FK model id nor the
\* FK record id is undefined.
FkUuidOf(row) ==
  LET fkModelId == getFkField(row, FkModelIdColumn)
      fkRecordId == getFkField(row, FkRecordIdColumn)
  IN IF fkModelId # Undef /\ fkRecordId # Undef
     THEN buildSchemaFkRefUuidV2(fkModelId, fkRecordId)
     ELSE Undef

\* One `key - value` part of a generated text.
Part(key, value) == [key |-> key, value |-> value]

\* The parts both generated texts end with: the FK metadata that is there.
FkParts(row) ==
  LET fkModel == getFkField(row, FkModelColumn)
      fkModelId == getFkField(row, FkModelIdColumn)
      fkRecordId == getFkField(row, FkRecordIdColumn)
  IN (IF Falsy(fkModel) THEN <<>> ELSE <<Part(FkModelColumn, fkModel)>>)
     \o (IF fkModelId.kind \in {"undef", "null"} THEN <<>>
         ELSE <<Part(FkModelIdColumn, fkModelId)>>)
     \o (IF fkRecordId.kind \in {"undef", "null"} THEN <<>>
         ELSE <<Part(FkRecordIdColumn, fkRecordId)>>)

\* The parts both generated texts share: the seven plain columns.
ColumnParts(row) ==
  [x \in 1..7 |->
     LET column == <<"Field_ID", "Model_ID", "Field_Name", "Field_Label",
                     "Field_Type", "Model_Name", "Stored">>[x]
     IN Part(column, Cell(row, column))]

\* generateSemanticText of the converter: the text to embed for a field.
generateSchemaSemanticText(row, fkUuid) ==
  <<Part("In model", Cell(row, "Model_Name"))>> \o ColumnParts(row) \o FkParts(row)
  \o (IF Falsy(fkUuid) THEN <<>> ELSE <<Part("Qdrant ID for FK", fkUuid)>>)

\* generatePayloadString: the payload of a field as key-value text.
generatePayloadString(row, uuid) ==
  <<Part("point_id", uuid), Part("Data_type", Num(3))>> \o ColumnParts(row) \o FkParts(row)

\* The NexsusSchemaRow of one row; an optional property that is not set is
\* undefined.
ConvertRow(row) ==
  LET uuid == buildSchemaUuidV2Simple(Cell(row, "Field_ID"), Cell(row, "Model_ID"))
      fkModel == getFkField(row, FkModelColumn)
      fkModelId == getFkField(row, FkModelIdColumn)
      fkRecordId == getFkField(row, FkRecordIdColumn)
      fkUuid == FkUuidOf(row)
      stored == Cell(row, "Stored")
  IN [qdrant_id |-> uuid,
      semantic_text |-> generateSchemaSemanticText(row, fkUuid),
      raw_payload |-> generatePayloadString(row, uuid),
      field_id |-> Cell(row, "Field_ID"),
      model_id |-> Cell(row, "Model_ID"),
      field_name |-> Cell(row, "Field_Name"),
      field_label |-> Cell(row, "Field_Label"),
      field_type |-> Cell(row, "Field_Type"),
      model_name |-> Cell(row, "Model_Name"),
      stored |-> stored.kind = "str" /\ ToLowerCase(stored.s) = "yes",
      fk_location_model |-> IF Falsy(fkModel) THEN Undef ELSE fkModel,
      fk_location_model_id |-> fkModelId,
      fk_location_record_id |-> fkRecordId,
      fk_qdrant_id |-> IF Falsy(fkUuid) THEN Undef ELSE fkUuid]

\* Faulty variant: the rows of an invalid schema are converted all the same.
convertAnySchema(arg) ==
  [threw |-> ~arg.defined,
   rows |-> [x \in 1..Len(arg.rows) |-> ConvertRow(arg.rows[x])]]

\* convertSimpleSchemaToNexsus: throws for an invalid schema, else maps the
\* rows in order.
convertSimpleSchemaToNexsus(arg) ==
  IF ~validateSimpleSchema(arg).valid
  THEN [threw |-> TRUE, rows |-> <<>>]
  ELSE [threw |-> FALSE, rows |-> [x \in 1..Len(arg.rows) |-> ConvertRow(arg.rows[x])]]

\* A row of a simple schema: the plain columns, and the FK columns it has.
SimpleRow(fieldId, modelId, fieldName, fieldType, modelName, fkColumns) ==
  fkColumns @@
  [Field_ID |-> fieldId, Model_ID |-> modelId, Field_Name |-> fieldName,
   Field_Label |-> Str("label"), Field_Type |-> fieldType,
   Model_Name |-> modelName, Stored |-> Str("Yes")]

NoFkColumns == [c \in {} |-> Undef]

\* The rows the schemas are made of: plain fields that share a Field_ID
\* within and across models, relational fields with complete FK metadata,
\* with metadata under spaced headers, with part of it or none, and rows
\* with a missing or non-numeric id or a blank name.
SchemaRows ==
  {SimpleRow(Num(1), Num(1), Str("name"), Str("char"), Str("A"), NoFkColumns),
   SimpleRow(Num(1), Num(2), Str("name"), Str("char"), Str("B"), NoFkColumns),
   SimpleRow(Num(2), Num(1), Str("code"), Str("char"), Str("A"), NoFkColumns),
   SimpleRow(Num(3), Num(1), Str("f1"), Str("many2one"), Str("A"),
             (FkModelColumn :> Str("B")) @@ (FkModelIdColumn :> Num(2))
             @@ (FkRecordIdColumn :> Num(7))),
   SimpleRow(Num(2), Num(2), Str("f1"), Str("Many2One"), Str("B"), NoFkColumns),
   SimpleRow(Num(4), Num(1), Str("f2"), Str("one2many"), Str("A"),
             (Spaced(FkModelColumn) :> Str("C")) @@ (Spaced(FkModelIdColumn) :> Num(3))),
   SimpleRow(Num(5), Num(2), Str("f3"), Str("many2many"), Str("B"),
             (FkModelColumn :> Str("C")) @@ (FkModelIdColumn :> Null)
             @@ (Spaced(FkModelIdColumn) :> Num(3)) @@ (FkRecordIdColumn :> Num(8))),
   SimpleRow(Num(7), Num(2), Str("f4"), Str("many2one"), Str("B"),
             (FkModelColumn :> Str("C")) @@ (Spaced(FkModelIdColumn) :> Num(3))
             @@ (Spaced(FkRecordIdColumn) :> Num(9))),
   SimpleRow(Undef, Num(1), Str("name"), Str("char"), Str("A"), NoFkColumns),
   SimpleRow(NaN, Null, Str("name"), Str("many2one"), Str("A"), NoFkColumns),
   SimpleRow(Num(6), Str("x"), Str(" "), Undef, Str(""), NoFkColumns)}

\* The arguments of the converter: undefined, and every array of up to
\* MaxRows of these rows.
SchemaArgs ==
  {SchemaArg(FALSE, <<>>)}
  \cup {SchemaArg(TRUE, rows) : rows \in UNION {[1..n -> SchemaRows] : n \in 0..MaxRows}}

\* A caller validates a schema.
ValidateSchema ==
  /\ conv.pc = "idle"
  /\ conv' = [conv EXCEPT !.pc = "validated",
                          !.validation = validateSimpleSchema(conv.arg)]
  /\ UNCHANGED <<world, phase, stack, outcome, calls, returned, events, store, edges,
                 faults, clock, run, prior, all>>

\* A caller converts a schema, validated before or not.
ConvertSchema ==
  /\ conv.pc \in {"idle", "validated"}
  /\ LET out == convertSimpleSchemaToNexsus(conv.arg)
     IN conv' = [conv EXCEPT !.pc = IF out.threw THEN "threw" ELSE "returned",
                             !.converted = out.rows]
  /\ UNCHANGED <<world, phase, stack, outcome, calls, returned, events, store, edges,
                 faults, clock, run, prior, all>>

ConvInit ==
  /\ world = World(Chain, StdFileA, NoDefect)
  /\ Quiet
  /\ conv \in {ConvInput(arg) : arg \in SchemaArgs}

ConvNext == ValidateSchema \/ ConvertSchema

ConvSpec == ConvInit /\ [][ConvNext]_vars

(* ------------------------- reading the history ------------------------- *)

\* Call c made a call `op` of a collaborator with argument n and outcome ok.
Did(c, op, n, ok) ==
  \E x \in 1..Len(events) :
    /\ events[x].call = c /\ events[x].op = op
    /\ events[x].n = n /\ events[x].ok = ok

\* Call c asked for the embeddings of batch b; the store took batch b.
Attempted(c, b) == Did(c, "embed", b, TRUE) \/ Did(c, "embed", b, FALSE)
Committed(c, b) == Did(c, "upsert", b, TRUE)

\* The number of records transformRecords gave call c.
TransformedBy(c) ==
  LET xs == {x \in 1..Len(events) : events[x].call = c /\ events[x].op = "transform"}
  IN IF xs = {} THEN 0 ELSE events[CHOOSE x \in xs : TRUE].n

\* Contiguous batches of EMBEDDING_BATCH_SIZE records, the last one smaller.
NumBatches(total) == (total + EMBEDDING_BATCH_SIZE - 1) \div EMBEDDING_BATCH_SIZE
BatchSize(total, b) == Min(EMBEDDING_BATCH_SIZE, total - EMBEDDING_BATCH_SIZE * (b - 1))

RECURSIVE SumSizes(_, _)
SumSizes(batches, total) ==
  IF batches = {} THEN 0
  ELSE LET b == CHOOSE x \in batches : TRUE
       IN BatchSize(total, b) + SumSizes(batches \ {b}, total)

\* The batches a running call is through with.
BatchesDone(f) ==
  IF f.pc \in {"modelExists", "getModelId", "read", "transform"} THEN 0
  ELSE IF f.pc \in {"embed", "upsert"} THEN f.i \div EMBEDDING_BATCH_SIZE
  ELSE NumBatches(Len(f.transformed))

\* The batch accounting of every call past transformRecords: of the running
\* calls as it stands, of the returned calls as their result gives it.
Accounts ==
  {[call |-> stack[d].call, total |-> Len(stack[d].transformed),
    done |-> BatchesDone(stack[d]), errors |-> stack[d].errors,
    synced |-> stack[d].recordsSynced, failed |-> stack[d].recordsFailed] :
     d \in 1..Len(stack)}
  \cup
  {[call |-> returned[x].call, total |-> TransformedBy(returned[x].call),
    done |-> NumBatches(TransformedBy(returned[x].call)),
    errors |-> returned[x].result.errors,
    synced |-> returned[x].result.records_synced,
    failed |-> returned[x].result.records_failed] :
     x \in {y \in 1..Len(returned) :
              /\ returned[y].kind = "result"
              /\ Did(returned[y].call, "transform", TransformedBy(returned[y].call), TRUE)}}

RootDone == phase = "done" /\ outcome.kind = "result"

\* The records the root call read.
RootRecords == world.file[calls[1].path].rows

(* -------------------------------- C1 ----------------------------------- *)

\* C1: failure isolation of the batch loop.  In every call, whatever the
\* outcomes of its batches: every batch up to the current one was attempted,
\* the errors are exactly one entry per failed batch naming that batch, the
\* failed batches' sizes add up to records_failed and the committed batches'
\* sizes to records_synced.
C1_FailureIsolation ==
  \A a \in Accounts :
    LET failedBatches == {b \in 1..a.done : ~Committed(a.call, b)}
    IN /\ \A b \in 1..a.done : Attempted(a.call, b)
       /\ [x \in 1..Len(a.errors) |-> a.errors[x].batch] = SetToSeq(failedBatches)
       /\ a.failed = SumSizes(failedBatches, a.total)
       /\ a.synced = SumSizes((1..a.done) \ failedBatches, a.total)

\* A sync of three batches returned with batch 2 failed between two
\* committed batches.
C1_Witness ==
  /\ RootDone
  /\ Committed(1, 1) /\ Attempted(1, 2) /\ ~Committed(1, 2) /\ Committed(1, 3)
  /\ Len(outcome.result.errors) = 1

(* -------------------------------- C2 ----------------------------------- *)

\* 120 records with ids, batch 2 failed, batches 1 and 3 committed.
C2_Scenario ==
  /\ RootDone
  /\ Len(RootRecords) = 120
  /\ \A x \in 1..120 : ~Falsy(RootRecords[x].id)
  /\ Committed(1, 1) /\ ~Committed(1, 2) /\ Committed(1, 3)

\* The points of the records at positions lo..hi of the root's file are in
\* the store.
InStore(lo, hi) ==
  \A x \in lo..hi :
    buildDataUuidV2(outcome.result.model_id, RootRecords[x].id.n) \in DOMAIN store

\* C2 as stated: 120 records, batch size 50, batch 2 fails: records_synced
\* is 100 and records_failed is 20, with one error naming batch 2 and
\* batches 1 and 3 in the store.
C2_AsStated ==
  C2_Scenario =>
    /\ outcome.result.records_synced = 100
    /\ outcome.result.records_failed = 20
    /\ Len(outcome.result.errors) = 1 /\ outcome.result.errors[1].batch = 2
    /\ InStore(1, 50) /\ InStore(101, 120)

\* C2 amended: batch 2 holds records 51..100, so its failure leaves
\* records_synced at 70 (batches 1 and 3) and records_failed at 50, with one
\* error naming batch 2 and batches 1 and 3 in the store.
C2_Amended ==
  C2_Scenario =>
    /\ outcome.result.records_synced = 70
    /\ outcome.result.records_failed = 50
    /\ Len(outcome.result.errors) = 1 /\ outcome.result.errors[1].batch = 2
    /\ InStore(1, 50) /\ InStore(101, 120)

C2_Witness == C2_Scenario /\ outcome.result.records_read = 120

(* -------------------------------- C3 ----------------------------------- *)

ManyToOne(fields) == {x \in 1..Len(fields) : fields[x].field_type = "many2one"}

\* The target models the schema fields declare, and those among them for
\* which some record resolves an FK id.
DeclaredTargets(fields) ==
  {fields[x].fk_location_model : x \in ManyToOne(fields)} \ {NoModel}
ResolvedTargets(records, fields) ==
  {fields[x].fk_location_model :
     x \in {y \in ManyToOne(fields) : FkIdsOf(records, fields[y]) # {}}} \ {NoModel}

RootFields == world.fields[calls[1].model]

\* The models of the nested calls, in call order.
NestedModels == [x \in 1..(Len(calls) - 1) |-> calls[x + 1].model]

\* C3: the cascade is one hop deep.  Every nested call runs with
\* skipCascade at depth 2; a call entered with skipCascade never computes
\* FK targets and never issues a nested call; and only the root's own
\* resolved FK targets are ever synced (for A -> B -> C, never C).
C3_OneHop ==
  /\ Len(stack) <= 2
  /\ \A c \in 2..Len(calls) :
       /\ calls[c].skipCascade /\ calls[c].depth = 2
       /\ calls[c].model \in ResolvedTargets(RootRecords, RootFields)
  /\ \A x \in 1..Len(events) :
       events[x].op = "targets" => ~calls[events[x].call].skipCascade
  /\ \A d \in 1..Len(stack) :
       stack[d].skipCascade =>
         stack[d].fkTargets = <<>> /\ stack[d].pc \notin {"nested", "awaitNested"}

\* A -> B -> C: the root A has no FK to C, its nested sync of B wrote B's
\* edge to C, and the root returned without a sync of C.
C3_Witness ==
  /\ RootDone
  /\ calls[1].model = "A" /\ ~calls[1].skipCascade
  /\ "C" \notin DeclaredTargets(RootFields)
  /\ Len(calls) = 2 /\ calls[2].model = "B"
  /\ <<"B", "f1">> \in DOMAIN edges
  /\ edges[<<"B", "f1">>].target_model = "C"

(* -------------------------------- C4 ----------------------------------- *)

\* C4: whatever the FK graph, a root call ends, and it causes at most one
\* sync per distinct FK target model of the root besides its own.
C4_Terminates ==
  /\ [](Len(calls) >= 1 =>
          Len(calls) <= 1 + Cardinality(DeclaredTargets(RootFields)))
  /\ (phase = "running" ~> phase = "done")

\* A -> A with A -> B -> A: the root returned after syncing itself and B
\* once more, each a target that points back at A.
C4_Witness ==
  /\ RootDone
  /\ calls[1].model = "A"
  /\ NestedModels = <<"A", "B">>
  /\ <<"B", "f1">> \in DOMAIN edges
  /\ edges[<<"B", "f1">>].target_model = "A"

(* -------------------------------- C5 ----------------------------------- *)

\* The root call has computed its FK targets and is through with them.
CascadeDone ==
  /\ \E x \in 1..Len(events) : events[x].call = 1 /\ events[x].op = "targets"
  /\ \/ RootDone
     \/ (Len(stack) = 1 /\ stack[1].pc = "finish")

\* C5: the root issues one nested sync per distinct resolved FK target
\* model: no model twice, none without a resolvable id, and once the
\* cascade is through every resolved target has been synced.
C5_OnePerTarget ==
  Len(calls) >= 1 =>
    /\ \A x, y \in 1..Len(NestedModels) : x # y => NestedModels[x] # NestedModels[y]
    /\ SeqToSet(NestedModels) \subseteq ResolvedTargets(RootRecords, RootFields)
    /\ CascadeDone => SeqToSet(NestedModels) = ResolvedTargets(RootRecords, RootFields)

\* Two FK fields of the root point at B, a third target is declared but
\* never resolved, and the root returned after one sync of B.
C5_Witness ==
  /\ RootDone /\ CascadeDone
  /\ Len(RootRecords) >= 2
  /\ Cardinality({x \in ManyToOne(RootFields) :
                    /\ RootFields[x].fk_location_model = "B"
                    /\ FkIdsOf(RootRecords, RootFields[x]) # {}}) = 2
  /\ NestedModels = <<"B">>

\* The root resolves no id for a declared target and syncs nothing.
C5_WitnessNone ==
  /\ RootDone /\ CascadeDone
  /\ DeclaredTargets(RootFields) # {}
  /\ NestedModels = <<>>

(* -------------------------------- C6 ----------------------------------- *)

\* The batches of call c that did not reach the store.
FailedBatches(c) == {b \in 1..NumBatches(TransformedBy(c)) : ~Committed(c, b)}

\* The nested calls that returned success, as cascaded_models lists them.
SucceededTargets ==
  LET ok == SelectSeq(returned, LAMBDA r :
              r.call >= 2 /\ r.kind = "result" /\ r.result.success)
  IN [x \in 1..Len(ok) |-> [model_name |-> calls[ok[x].call].model,
                            records_synced |-> ok[x].result.records_synced]]

\* A nested call that returned success = false or threw.
NestedFailure(x) ==
  /\ returned[x].call >= 2
  /\ returned[x].kind = "result" => ~returned[x].result.success

\* C6: a nested sync that fails or throws is left out of cascaded_models
\* and touches nothing else of the root.  While the root waits for the
\* next target its cascadedModels are exactly the targets that returned
\* success; its result lists exactly those, its errors, success and counts
\* are those of its own batches, and every resolved target was synced.
C6_CascadeFailureIsolated ==
  /\ (Len(stack) >= 1 /\ stack[1].pc \in {"nested", "finish"}) =>
       /\ stack[1].cascadedModels = SucceededTargets
       /\ Len(stack[1].errors) = Cardinality(FailedBatches(1))
  /\ (RootDone /\ CascadeDone) =>
       /\ outcome.result.cascaded_models = SucceededTargets
       /\ Len(outcome.result.errors) = Cardinality(FailedBatches(1))
       /\ outcome.result.success = (FailedBatches(1) = {})
       /\ outcome.result.records_failed = SumSizes(FailedBatches(1), TransformedBy(1))
       /\ outcome.result.records_synced =
            SumSizes((1..NumBatches(TransformedBy(1))) \ FailedBatches(1), TransformedBy(1))
       /\ SeqToSet(NestedModels) = ResolvedTargets(RootRecords, RootFields)

\* The first target failed or threw, the second was still synced and is
\* the only one listed, and the root returned success.
C6_Witness ==
  /\ RootDone /\ outcome.result.success
  /\ Len(calls) = 3
  /\ \E x \in 1..Len(returned) : returned[x].call = 2 /\ NestedFailure(x)
  /\ Len(outcome.result.cascaded_models) = 1
  /\ outcome.result.cascaded_models[1].model_name = calls[3].model

(* -------------------------------- C7 ----------------------------------- *)

\* C7: every result syncExcelData returns has success = (errors is empty).
C7_SuccessIffNoErrors ==
  \A x \in 1..Len(returned) :
    returned[x].kind = "result" =>
      (returned[x].result.success <=> Len(returned[x].result.errors) = 0)

\* A full sync returned success = false with part of its records synced.
C7_Witness ==
  /\ RootDone
  /\ ~outcome.result.success
  /\ outcome.result.records_synced > 0
  /\ Len(outcome.result.errors) = 1

(* -------------------------------- C8 ----------------------------------- *)

\* Call c ended by throwing.
Threw(c) ==
  \E x \in 1..Len(returned) : returned[x].call = c /\ returned[x].kind = "throw"

\* C8 as stated: a failure of ensureModelIndexes is not fatal: the call
\* does not throw, and it goes on to its cascade step and to a result.
C8_IndexFailureNonFatal ==
  \A c \in 1..Len(calls) :
    Did(c, "index", 0, FALSE) =>
      /\ ~Threw(c)
      /\ (c = 1 /\ phase = "done") => RootDone

(* -------------------------------- C9 ----------------------------------- *)

\* The FK fields of call f for which updateKnowledgeGraph upserts an edge.
EdgesDue(f) ==
  LET fkFields == GraphFkFields(world.fields[f.model])
  IN {k \in 1..Len(fkFields) : FkIdsOf(f.records, fkFields[k]) # {}}

\* C9: a failed edge upsert fails that field only.  Once a call is through
\* with the knowledge graph, every FK field that resolves an id had its
\* upsert attempted, edges_created counts the upserts that returned, and
\* the errors are still those of the failed batches; a call with a failed
\* edge upsert goes on to ensureModelIndexes, and, when that returns, to the
\* cascade step and to a result whose success is that of its batches.
C9_EdgeFailureIsolated ==
  /\ \A d \in 1..Len(stack) :
       LET f == stack[d]
       IN f.pc \in {"index", "cascade", "nested", "awaitNested", "finish"} =>
            /\ \A k \in EdgesDue(f) :
                 Did(f.call, "edge", k, TRUE) \/ Did(f.call, "edge", k, FALSE)
            /\ f.edgesCreated =
                 Cardinality({k \in EdgesDue(f) : Did(f.call, "edge", k, TRUE)})
            /\ Len(f.errors) = Cardinality(FailedBatches(f.call))
            /\ f.pc # "index" => Did(f.call, "index", 0, TRUE)
            /\ (f.pc \in {"nested", "awaitNested", "finish"} /\ ~f.skipCascade) =>
                 \E x \in 1..Len(events) :
                   events[x].call = f.call /\ events[x].op = "targets"
  /\ \A x \in 1..Len(returned) :
       LET c == returned[x].call
       IN (\E k \in 1..Len(world.fields[calls[c].model]) : Did(c, "edge", k, FALSE)) =>
            /\ Did(c, "index", 0, TRUE) \/ Did(c, "index", 0, FALSE)
            /\ Did(c, "index", 0, TRUE) =>
                 /\ returned[x].kind = "result"
                 /\ returned[x].result.success = (FailedBatches(c) = {})
                 /\ Len(returned[x].result.errors) = Cardinality(FailedBatches(c))

\* The upsert of the root's first FK field failed, that of its second
\* returned, and the root went on to its indexes, its cascade, and success.
C9_Witness ==
  /\ RootDone /\ CascadeDone
  /\ Did(1, "edge", 1, FALSE) /\ Did(1, "edge", 2, TRUE)
  /\ Did(1, "index", 0, TRUE)
  /\ Len(calls) >= 2
  /\ outcome.result.success

(* -------------------------------- C10 ---------------------------------- *)

\* C10: a dry run of a model the registry knows, over a file of N >= 1
\* records, returns records_read = N with nothing synced or failed, no
\* error and success, and calls no collaborator: nothing is transformed,
\* embedded or written, no edge, no index, no nested sync.
C10_DryRun ==
  (Len(calls) >= 1 /\ calls[1].dryRun) =>
    /\ events = <<>> /\ store = <<>> /\ edges = <<>>
    /\ Len(calls) = 1
    /\ (/\ phase = "done"
        /\ world.exists[calls[1].model] /\ world.id[calls[1].model] # 0
        /\ world.file[calls[1].path].present
        /\ Len(RootRecords) >= 1) =>
         /\ RootDone
         /\ outcome.result.records_read = Len(RootRecords)
         /\ outcome.result.records_synced = 0
         /\ outcome.result.records_failed = 0
         /\ outcome.result.errors = <<>>
         /\ outcome.result.success
         /\ outcome.result.cascaded_models = <<>>

\* A dry run over a file of 120 records whose schema declares an FK target.
C10_Witness ==
  /\ RootDone
  /\ calls[1].dryRun /\ ~calls[1].skipCascade
  /\ outcome.result.records_read = 120
  /\ DeclaredTargets(RootFields) # {}

(* -------------------------------- C11 ---------------------------------- *)

\* Call c cannot sync: the registry does not know its model or has no id
\* for it, or its data file is missing.
Fatal(c) ==
  \/ ~world.exists[calls[c].model]
  \/ world.id[calls[c].model] = 0
  \/ ~world.file[calls[c].path].present

\* C11: a call whose model is unknown, whose model id cannot be resolved or
\* whose file is missing returns at once a failed result: success = false,
\* nothing read, synced or failed, exactly one error; it never gets past
\* reading the file, calls no collaborator (no transform, embedding, store
\* upsert, edge upsert, index call) and starts no nested sync.
C11_FatalReturns ==
  /\ \A d \in 1..Len(stack) :
       Fatal(stack[d].call) => stack[d].pc \in {"modelExists", "getModelId", "read"}
  /\ \A c \in 1..Len(calls) :
       Fatal(c) =>
         /\ \A x \in 1..Len(events) : events[x].call # c
         /\ c = 1 => (Len(calls) = 1 /\ store = <<>> /\ edges = <<>>)
         /\ (c = 1 /\ phase = "done") => RootDone
         /\ \A x \in 1..Len(returned) :
              returned[x].call = c =>
                /\ returned[x].kind = "result"
                /\ ~returned[x].result.success
                /\ returned[x].result.records_read = 0
                /\ returned[x].result.records_synced = 0
                /\ returned[x].result.records_failed = 0
                /\ Len(returned[x].result.errors) = 1
                /\ returned[x].result.cascaded_models = <<>>

\* A root call on a known model whose data file is missing has returned.
C11_Witness ==
  /\ RootDone
  /\ world.exists[calls[1].model] /\ world.id[calls[1].model] # 0
  /\ ~world.file[calls[1].path].present
  /\ outcome.result.model_id # 0
  /\ Len(outcome.result.errors) = 1

\* A nested call on a target the registry does not know has returned.
C11_WitnessNested ==
  /\ Len(calls) >= 2 /\ ~world.exists[calls[2].model]
  /\ \E x \in 1..Len(returned) : returned[x].call = 2


(* -------------------------------- C12 ---------------------------------- *)

\* Batch j of frame f has been dealt with: the store took it, or it is
\* recorded as failed.
Settled(f, j) ==
  \/ Committed(f.call, j)
  \/ \E x \in 1..Len(f.errors) : f.errors[x].batch = j

\* The batch calls (embedBatch, upsertToUnifiedCollection) of call c, as
\* positions of `events`.
BatchEvents(c) ==
  {x \in 1..Len(events) : events[x].call = c /\ events[x].op \in {"embed", "upsert"}}

\* C12: the batches of one sync run strictly one after the other.  While
\* batch b is in flight (its embedding asked for, or its points on their
\* way to the store) every earlier batch is settled, batch b is not, and no
\* call for a later batch has been made; the batch calls of a sync are in
\* batch order, and for one batch the embedding comes before its upsert.
C12_BatchesSequential ==
  /\ \A d \in 1..Len(stack) :
       LET f == stack[d]
           b == BatchNum(f)
       IN f.pc \in {"embed", "upsert"} =>
            /\ \A j \in 1..(b - 1) : Settled(f, j)
            /\ ~Settled(f, b)
            /\ \A x \in BatchEvents(f.call) : events[x].n <= b
            /\ f.pc = "embed" => \A x \in BatchEvents(f.call) : events[x].n < b
            /\ f.pc = "upsert" => Did(f.call, "embed", b, TRUE)
  /\ \A c \in 1..Len(calls) :
       \A x, y \in BatchEvents(c) :
         x < y =>
           /\ events[x].n <= events[y].n
           /\ events[x].n = events[y].n =>
                (events[x].op = "embed" /\ events[x].ok /\ events[y].op = "upsert")

\* Batch 3 is in flight after batch 1 reached the store and batch 2 failed.
C12_Witness ==
  /\ Len(stack) = 1 /\ stack[1].pc = "upsert" /\ BatchNum(stack[1]) = 3
  /\ Committed(1, 1) /\ ~Committed(1, 2) /\ Settled(stack[1], 2)

(* -------------------------------- C13 ---------------------------------- *)

\* Call c has returned or thrown.
Ended(c) == \E x \in 1..Len(returned) : returned[x].call = c

\* C13: the nested syncs of a root call run one after the other.  A nested
\* sync starts only when every nested sync before it has returned or
\* thrown, at most one nested sync is running, the root waits while it
\* runs, and everything a nested sync does comes before anything the next
\* one does.
C13_CascadeSequential ==
  /\ Len(stack) <= 2
  /\ \A c \in 2..Len(calls) : \A b \in 2..(c - 1) : Ended(b)
  /\ Cardinality({c \in 2..Len(calls) : ~Ended(c)}) = (IF Len(stack) = 2 THEN 1 ELSE 0)
  /\ Len(stack) = 2 => (stack[1].pc = "awaitNested" /\ stack[2].call = Len(calls))
  /\ \A x, y \in 1..Len(events) :
       (events[x].call >= 2 /\ events[x].call < events[y].call) => x < y

\* The second nested sync is running after the first one threw, both
\* having called collaborators.
C13_Witness ==
  /\ Len(calls) = 3 /\ Len(stack) = 2
  /\ Threw(2)
  /\ \E x \in 1..Len(events) : events[x].call = 2
  /\ \E x \in 1..Len(events) : events[x].call = 3

(* -------------------------------- C14 ---------------------------------- *)

\* The records of call c's file, and those among them without a truthy id.
RecordsOf(c) == world.file[calls[c].path].rows
IdLess(c) == {y \in 1..Len(RecordsOf(c)) : Falsy(RecordsOf(c)[y].id)}

\* C14: a record without id is skipped silently.  A sync that transforms
\* its records gets one transformed record per record with id; no point
\* of the store belongs to an id-less record; the call throws only for a
\* failed index call; and its result counts every record in records_read,
\* the id-less ones in neither records_synced nor records_failed nor
\* errors, so that records_read - (records_synced + records_failed) is the
\* number of id-less records.
C14_MissingIdSkipped ==
  /\ \A id \in DOMAIN store : id.n # 0
  /\ \A d \in 1..Len(stack) :
       stack[d].pc \notin {"modelExists", "getModelId", "read", "transform"} =>
         Len(stack[d].transformed) =
           Len(RecordsOf(stack[d].call)) - Cardinality(IdLess(stack[d].call))
  /\ \A x \in 1..Len(returned) :
       LET c == returned[x].call
           r == returned[x].result
       IN Did(c, "transform", TransformedBy(c), TRUE) =>
            /\ TransformedBy(c) = Len(RecordsOf(c)) - Cardinality(IdLess(c))
            /\ returned[x].kind = "throw" => Did(c, "index", 0, FALSE)
            /\ returned[x].kind = "result" =>
                 /\ r.records_read = Len(RecordsOf(c))
                 /\ r.records_synced + r.records_failed = TransformedBy(c)
                 /\ r.records_read - (r.records_synced + r.records_failed) =
                      Cardinality(IdLess(c))
                 /\ Len(r.errors) = Cardinality(FailedBatches(c))

\* A sync of two records, the second without id, returned success with
\* two read, one synced, none failed, and one point in the store for it.
C14_Witness ==
  /\ RootDone /\ calls[1].skipCascade
  /\ Len(RootRecords) = 2 /\ IdLess(1) = {2}
  /\ outcome.result.success
  /\ outcome.result.records_read = 2
  /\ outcome.result.records_synced = 1
  /\ outcome.result.records_failed = 0
  /\ Cardinality(DOMAIN store) = 1

(* -------------------------------- C20 ---------------------------------- *)

\* The place of a collaborator call in the control flow of a sync.
Rank(op) ==
  CASE op = "transform" -> 0
    [] op \in {"embed", "upsert"} -> 1
    [] op = "edge" -> 2
    [] op = "index" -> 3
    [] OTHER -> 4

\* C20: the side effects of one sync are ordered.  Its collaborator calls
\* come in the order transform, batch embed/upsert calls, edge upserts,
\* index call, FK-target collection; when the first edge upsert is due all
\* batches have been attempted, when FK targets are collected the index
\* call has returned, and a nested sync starts, and acts, only after the
\* root's index call and FK-target collection.
C20_SideEffectsOrdered ==
  /\ \A x, y \in 1..Len(events) :
       (events[x].call = events[y].call /\ x < y) =>
         Rank(events[x].op) <= Rank(events[y].op)
  /\ \A d \in 1..Len(stack) :
       LET f == stack[d]
       IN /\ f.pc \in {"graph", "edge", "index", "cascade", "nested", "awaitNested", "finish"} =>
               \A b \in 1..NumBatches(Len(f.transformed)) : Attempted(f.call, b)
          /\ f.pc \in {"index", "cascade", "nested", "awaitNested", "finish"} =>
               \A k \in EdgesDue(f) :
                 Did(f.call, "edge", k, TRUE) \/ Did(f.call, "edge", k, FALSE)
          /\ f.pc \in {"cascade", "nested", "awaitNested", "finish"} =>
               Did(f.call, "index", 0, TRUE)
  /\ \A x \in 1..Len(events) :
       events[x].op = "targets" =>
         \E y \in 1..(x - 1) :
           events[y].call = events[x].call /\ events[y].op = "index" /\ events[y].ok
  /\ Len(calls) >= 2 =>
       /\ Did(1, "index", 0, TRUE)
       /\ \E x \in 1..Len(events) : events[x].call = 1 /\ events[x].op = "targets"
       /\ \A x, y \in 1..Len(events) :
            (events[x].call = 1 /\ events[y].call >= 2) => x < y

\* A root sync of three batches wrote its edge, called the index service,
\* collected its target and returned after the nested sync of that target.
C20_Witness ==
  /\ RootDone
  /\ Committed(1, 1) /\ Attempted(1, 2) /\ Committed(1, 3)
  /\ Did(1, "edge", 1, TRUE)
  /\ Did(1, "index", 0, TRUE)
  /\ Len(calls) = 2
  /\ \E x \in 1..Len(events) : events[x].call = 2 /\ events[x].op = "upsert"

(* -------------------------------- C15 ---------------------------------- *)

\* C15: syncing the same model and file again leaves the store's key set
\* as it was.  Every point id in the store is the identity of a (model id,
\* record id) pair of a record with id, no pair has two entries, and when a
\* root call returns with all its batches committed after a root call that
\* did the same, the point ids in the store are those the earlier call left.
C15_ResyncIdempotent ==
  /\ \A id \in DOMAIN store :
       \E m \in Models, p \in Paths :
         \E y \in 1..Len(world.file[p].rows) :
           /\ ~Falsy(world.file[p].rows[y].id)
           /\ id = buildDataUuidV2(world.id[m], world.file[p].rows[y].id.n)
  /\ Cardinality(DOMAIN store) = Cardinality({<<id.m, id.n>> : id \in DOMAIN store})
  /\ (run >= 2 /\ RootDone /\ prior.clean /\ AllCommitted) =>
       DOMAIN store = prior.keys

\* The second sync of a model with a cascade target returned: the store
\* holds the points of the first sync, each written again by the second.
C15_Witness ==
  /\ run = 2 /\ RootDone /\ prior.clean /\ AllCommitted
  /\ Len(calls) >= 2
  /\ Cardinality(prior.keys) >= 3
  /\ DOMAIN store = prior.keys
  /\ \A id \in DOMAIN store : store[id].payload.sync_timestamp.n >= 2

(* -------------------------------- C16 ---------------------------------- *)

\* A file name of the form SAMPLE_<model>_data.xlsx.
Convention(file) ==
  file.pre = "SAMPLE_" /\ file.suf = "_data.xlsx" /\ file.model # ""

\* The models of the files of the listing that follow the convention, in
\* the order of the listing.
ConventionModels(files) ==
  LET named == SelectSeq(files, Convention)
  IN [x \in 1..Len(named) |-> named[x].model]

\* C16: syncAllExcelData syncs with cascade off whatever the caller asked
\* for: each of its syncs runs with skipCascade, collects no FK targets and
\* starts no nested sync.  When it returns, its results are one per file of
\* the listing named SAMPLE_<model>_data.xlsx, in the order of the listing,
\* and without data directory it returns no result and syncs nothing.
C16_SyncAll ==
  /\ all.pc # "idle" =>
       /\ Len(calls) <= 1
       /\ \A c \in 1..Len(calls) : calls[c].skipCascade
       /\ \A x \in 1..Len(events) : events[x].op # "targets"
  /\ all.pc = "await" =>
       /\ calls[1].model = MatchModel(all.dataFiles[all.j])
       /\ Len(all.results) < Len(ConventionModels(all.files))
       /\ \A x \in 1..Len(all.results) :
            all.results[x].model_name = ConventionModels(all.files)[x]
  /\ all.pc = "returned" =>
       IF world.dataDir
       THEN [x \in 1..Len(all.results) |-> all.results[x].model_name]
              = ConventionModels(all.files)
       ELSE all.results = <<>> /\ calls = <<>> /\ store = <<>>

\* Called with skipCascade = false over a directory listing C, B, A among
\* other files, where A and B declare FK targets, syncAllExcelData returned
\* three results in that order.
C16_Witness ==
  /\ all.pc = "returned"
  /\ ~all.options.skipCascade /\ ~all.options.dryRun
  /\ Len(all.files) = 4
  /\ Len(all.results) = 3
  /\ all.results[1].model_name = "C" /\ all.results[3].model_name = "A"
  /\ DeclaredTargets(world.fields["A"]) # {}
  /\ all.results[3].records_synced > 0

\* Without data directory syncAllExcelData returned no result.
C16_WitnessNoDir ==
  /\ all.pc = "returned"
  /\ ~world.dataDir
  /\ all.results = <<>>

(* -------------------------------- C17 ---------------------------------- *)

\* C17: convertSimpleSchemaToNexsus throws, and produces no row, exactly
\* when validateSimpleSchema finds its argument invalid; else it returns
\* one row per input row, in input order, with the input row's Field_ID,
\* Model_ID, Field_Name and Model_Name, and with the identity of
\* (Field_ID, Model_ID) as qdrant_id.
C17_ConvertOrThrow ==
  conv.pc \in {"returned", "threw"} =>
    LET rows == conv.arg.rows
    IN /\ (conv.pc = "threw") <=> ~validateSimpleSchema(conv.arg).valid
       /\ conv.pc = "threw" => conv.converted = <<>>
       /\ conv.pc = "returned" =>
            /\ Len(conv.converted) = Len(rows)
            /\ \A x \in 1..Len(rows) :
                 /\ conv.converted[x].field_id = Cell(rows[x], "Field_ID")
                 /\ conv.converted[x].model_id = Cell(rows[x], "Model_ID")
                 /\ conv.converted[x].field_name = Cell(rows[x], "Field_Name")
                 /\ conv.converted[x].model_name = Cell(rows[x], "Model_Name")
                 /\ conv.converted[x].qdrant_id =
                      buildSchemaUuidV2Simple(Cell(rows[x], "Field_ID"),
                                              Cell(rows[x], "Model_ID"))

\* A schema of three rows, one of them relational with incomplete FK
\* metadata, was converted into three rows.
C17_Witness ==
  /\ conv.pc = "returned"
  /\ Len(conv.converted) = 3
  /\ validateSimpleSchema(conv.arg).warnings # <<>>
  /\ conv.converted[1].field_id # conv.converted[3].field_id

\* The conversion of a schema of three rows with a repeated Field_ID threw.
C17_WitnessThrew ==
  /\ conv.pc = "threw"
  /\ Len(conv.arg.rows) = 3
  /\ conv.converted = <<>>

(* -------------------------------- C18 ---------------------------------- *)

\* The rows with a numeric Field_ID, and those among them whose Field_ID an
\* earlier row has.
NumericId(rows) ==
  {x \in 1..Len(rows) :
     Cell(rows[x], "Field_ID").kind \notin {"undef", "null"}
     /\ ~IsNaN(Cell(rows[x], "Field_ID"))}
Repeats(rows) ==
  {y \in NumericId(rows) :
     \E x \in NumericId(rows) :
       x < y /\ Cell(rows[x], "Field_ID") = Cell(rows[y], "Field_ID")}
FirstOf(rows, y) ==
  CHOOSE x \in NumericId(rows) :
    /\ Cell(rows[x], "Field_ID") = Cell(rows[y], "Field_ID")
    /\ \A z \in NumericId(rows) :
         Cell(rows[z], "Field_ID") = Cell(rows[y], "Field_ID") => x <= z

\* C18: a schema in which two rows have the same Field_ID is invalid,
\* whatever their Model_ID: the validation reports one duplicate error per
\* repeated occurrence, in row order, naming the Excel row of the first
\* occurrence and that of the repeating row (position + 1, the header being
\* row 1); an undefined or empty schema is invalid with one error.
C18_DuplicateFieldId ==
  conv.pc = "validated" =>
    LET rows == conv.arg.rows
        v == conv.validation
        dups == SelectSeq(v.errors, LAMBDA e : e.kind = "duplicate")
        repeats == SetToSeq(Repeats(rows))
    IN /\ (~conv.arg.defined \/ Len(rows) = 0) =>
            (~v.valid /\ Len(v.errors) = 1 /\ v.errors[1].kind = "empty")
       /\ (\E x, y \in 1..Len(rows) :
             x < y /\ Cell(rows[x], "Field_ID") = Cell(rows[y], "Field_ID")) => ~v.valid
       /\ [x \in 1..Len(dups) |-> <<dups[x].first, dups[x].row>>] =
            [x \in 1..Len(repeats) |-> <<FirstOf(rows, repeats[x]) + 1, repeats[x] + 1>>]

\* Three rows of two models with one Field_ID: two duplicate errors, both
\* naming row 2 as the first occurrence.
C18_Witness ==
  /\ conv.pc = "validated"
  /\ Len(conv.arg.rows) = 3
  /\ Cell(conv.arg.rows[1], "Model_ID") # Cell(conv.arg.rows[2], "Model_ID")
  /\ Repeats(conv.arg.rows) = {2, 3}
  /\ ~conv.validation.valid
  /\ conv.validation.errors =
       <<Message("duplicate", 3, "Field_ID", 2), Message("duplicate", 4, "Field_ID", 2)>>

\* The validation of an undefined schema found it invalid with one error.
C18_WitnessEmpty ==
  /\ conv.pc = "validated"
  /\ ~conv.arg.defined
  /\ ~conv.validation.valid /\ Len(conv.validation.errors) = 1

(* -------------------------------- C19 ---------------------------------- *)

\* The schema without its FK metadata columns.
WithoutFkColumns(arg) ==
  SchemaArg(arg.defined,
    [x \in 1..Len(arg.rows) |->
       [c \in DOMAIN arg.rows[x] \cap
              {"Field_ID", "Model_ID", "Field_Name", "Field_Label", "Field_Type",
               "Model_Name", "Stored"} |-> arg.rows[x][c]]])

\* C19: incomplete FK metadata only warns.  For every schema valid is true
\* exactly when errors is empty; every warning is about a relational row;
\* and taking the FK metadata away changes neither valid nor errors.
C19_WarningsOnly ==
  conv.pc = "validated" =>
    LET v == conv.validation
    IN /\ v.valid <=> (v.errors = <<>>)
       /\ \A x \in 1..Len(v.warnings) : IsFkField(conv.arg.rows[v.warnings[x].row - 1])
       /\ validateSimpleSchema(WithoutFkColumns(conv.arg)).valid = v.valid
       /\ validateSimpleSchema(WithoutFkColumns(conv.arg)).errors = v.errors

\* A schema with a relational row without any FK metadata is valid, with
\* three warnings for that row.
C19_Witness ==
  /\ conv.pc = "validated"
  /\ conv.validation.valid
  /\ Len(conv.validation.warnings) = 3
  /\ Len(conv.arg.rows) = 1

(* -------------------------------- C21 ---------------------------------- *)

\* The batch b of call c as transformRecords gave it.
BatchRecords(c, b) ==
  LET transformed == transformRecords(RecordsOf(c), calls[c].model,
                                      world.id[calls[c].model],
                                      world.fields[calls[c].model])
  IN SubSeq(transformed, EMBEDDING_BATCH_SIZE * (b - 1) + 1,
            Min(EMBEDDING_BATCH_SIZE * b, Len(transformed)))

\* The errors a count mismatch of the embeddings left in account a.
Mismatches(a) ==
  {x \in 1..Len(a.errors) : a.errors[x].msg = "embedding count mismatch"}

\* A step in which upsertToUnifiedCollection returned.
UpsertReturned ==
  /\ Len(events') = Len(events) + 1
  /\ events'[Len(events')].op = "upsert" /\ events'[Len(events')].ok

\* The points of a sync and the embeddings they were built from.
C21_PointsAligned ==
  /\ \A a \in Accounts :
       \A x \in Mismatches(a) :
         LET b == a.errors[x].batch
         IN /\ Did(a.call, "embed", b, TRUE)
            /\ ~Did(a.call, "upsert", b, TRUE) /\ ~Did(a.call, "upsert", b, FALSE)
            /\ \A y \in 1..Len(a.errors) : a.errors[y].batch = b => y = x
            /\ Len(a.errors) = Cardinality({j \in 1..a.done : ~Committed(a.call, j)})
            /\ a.failed = SumSizes({j \in 1..a.done : ~Committed(a.call, j)}, a.total)
  /\ \A d \in 1..Len(stack) :
       LET f == stack[d]
           batch == BatchRecords(f.call, BatchNum(f))
       IN f.pc = "upsert" =>
            /\ batch = BatchOf(f)
            /\ Len(f.points) = Len(batch)
            /\ \A x \in 1..Len(batch) :
                 /\ f.points[x].vector = Embedding(batch[x].vector_text)
                 /\ f.points[x].id = buildDataUuidV2(batch[x].model_id, batch[x].record_id)
                 /\ f.points[x].id.n = batch[x].record_id
                 /\ "record_id" \notin DOMAIN batch[x].payload =>
                      f.points[x].payload.record_id = Num(batch[x].record_id)
  /\ \A c \in 1..Len(calls) :
       \A x, y \in BatchEvents(c) :
         (events[x].op = "upsert" /\ events[y].op = "upsert" /\ events[x].n = events[y].n)
           => x = y

\* The store changes only when upsertToUnifiedCollection returns, and then
\* it takes every point of the batch.
C21_OneUpsert ==
  /\ ~UpsertReturned => store' = store
  /\ UpsertReturned =>
       /\ DOMAIN store' = DOMAIN store \cup {Top.points[x].id : x \in 1..Len(Top.points)}
       /\ Len(Top.points) = Len(BatchOf(Top))
       /\ \A x \in 1..Len(Top.points) :
            store'[Top.points[x].id] =
              [vector |-> Top.points[x].vector, payload |-> Top.points[x].payload]
       /\ \A id \in DOMAIN store \ {Top.points[x].id : x \in 1..Len(Top.points)} :
            store'[id] = store[id]

\* C21: a batch whose embedding count differs from its size is failed
\* without a store upsert, and it alone; of a batch whose count matches,
\* the i-th point carries the vector of the i-th text and the identity and
\* record_id of the i-th record, and the batch is written by one upsert
\* call that stores all its points.
C21_EmbeddingCount == []C21_PointsAligned /\ [][C21_OneUpsert]_vars

\* A sync of three batches returned with batch 2 failed for its embedding
\* count between two committed batches, whose 70 points are in the store
\* with 70 different vectors.
C21_Witness ==
  /\ RootDone
  /\ Committed(1, 1) /\ Committed(1, 3)
  /\ outcome.result.errors = <<[batch |-> 2, msg |-> "embedding count mismatch"]>>
  /\ outcome.result.records_failed = EMBEDDING_BATCH_SIZE
  /\ Cardinality({store[id].vector : id \in DOMAIN store}) = 70

(* -------------------------------- C22 ---------------------------------- *)

\* Call c is a sync, not a dry run, of a model the registry knows, over a
\* file with records, and the registry has no fields for the model.
Fieldless(c) ==
  /\ ~Fatal(c)
  /\ Len(RecordsOf(c)) >= 1
  /\ ~calls[c].dryRun
  /\ world.fields[calls[c].model] = <<>>

\* C22: a sync of a model without schema fields throws from
\* transformRecords.  Such a call never gets past transformRecords,
\* transforms nothing and calls no collaborator (no embedding, store
\* upsert, edge upsert, index call, FK-target collection), starts no nested
\* sync and ends by throwing, never by a result; as the root call it leaves
\* store and edges untouched and the caller gets the error; as a nested
\* call its error is caught by the root, which does not list the model and
\* still returns its own result.
C22_NoSchemaThrows ==
  /\ \A d \in 1..Len(stack) :
       Fieldless(stack[d].call) =>
         /\ stack[d].pc \in {"modelExists", "getModelId", "read", "transform"}
         /\ stack[d].transformed = <<>>
  /\ \A c \in 1..Len(calls) :
       Fieldless(c) =>
         /\ \A x \in 1..Len(events) : events[x].call # c
         /\ \A x \in 1..Len(returned) :
              returned[x].call = c =>
                returned[x].kind = "throw" /\ returned[x].error = "no schema fields"
         /\ c = 1 =>
              /\ Len(calls) = 1 /\ store = <<>> /\ edges = <<>>
              /\ phase = "done" => outcome = [kind |-> "throw", error |-> "no schema fields"]
         /\ c >= 2 =>
              /\ \A d \in 1..Len(stack) :
                   \A x \in 1..Len(stack[d].cascadedModels) :
                     stack[d].cascadedModels[x].model_name # calls[c].model
              /\ phase = "done" =>
                   /\ RootDone /\ Threw(c)
                   /\ \A x \in 1..Len(outcome.result.cascaded_models) :
                        outcome.result.cascaded_models[x].model_name # calls[c].model
                   /\ outcome.result.success = (FailedBatches(1) = {})

\* The nested sync of a target without schema fields threw, the target
\* after it was still synced, and the root returned success.
C22_Witness ==
  /\ RootDone /\ outcome.result.success
  /\ Len(calls) = 3 /\ Fieldless(2) /\ Threw(2)
  /\ Len(outcome.result.cascaded_models) = 1

\* A root sync of a model without schema fields threw.
C22_WitnessRoot ==
  /\ phase = "done" /\ Fieldless(1)
  /\ outcome.kind = "throw"

(* -------------------------------- C23 ---------------------------------- *)

\* The FK ids the cells of column `name` hold, as numbers or as the first
\* element of an [id, label] pair.
ResolvedIds(records, name) ==
  {Cell(records[y], name).n :
     y \in {z \in 1..Len(records) : Cell(records[z], name).kind \in {"num", "tuple"}}}

\* The positions of the fields of model m that are many2one and declare a
\* target model and a target model id.
EdgeFields(m) ==
  {x \in 1..Len(world.fields[m]) :
     /\ world.fields[m][x].field_type = "many2one"
     /\ world.fields[m][x].fk_location_model # NoModel
     /\ world.fields[m][x].fk_location_model_id # 0}

\* The upsertRelationship calls of call c, as positions of `events`.
EdgeEvents(c) == {x \in 1..Len(events) : events[x].call = c /\ events[x].op = "edge"}

\* C23: updateKnowledgeGraph upserts at most one edge per many2one field
\* that declares a target model and a target model id, and one exactly
\* when some record resolves an FK id for the field.  Every edge in the
\* graph store was written by a sync of its source model for such a field,
\* with edge_count the number of all records of that sync's file (records
\* without FK value or without id included) and unique_targets the number
\* of distinct FK ids the records resolve for the field.
C23_EdgePerField ==
  /\ \A c \in 1..Len(calls) :
       /\ \A x, y \in EdgeEvents(c) : events[x].n = events[y].n => x = y
       /\ Cardinality(EdgeEvents(c)) <= Cardinality(EdgeFields(calls[c].model))
       /\ \A x \in EdgeEvents(c) :
            LET fkFields == GraphFkFields(world.fields[calls[c].model])
            IN /\ events[x].n \in 1..Len(fkFields)
               /\ ResolvedIds(RecordsOf(c), fkFields[events[x].n].field_name) # {}
  /\ \A d \in 1..Len(stack) :
       LET f == stack[d]
           fkFields == GraphFkFields(world.fields[f.model])
       IN f.pc \in {"index", "cascade", "nested", "awaitNested", "finish"} =>
            \A k \in 1..Len(fkFields) :
              (\E x \in EdgeEvents(f.call) : events[x].n = k)
                <=> ResolvedIds(f.records, fkFields[k].field_name) # {}
  /\ \A key \in DOMAIN edges :
       LET e == edges[key]
       IN /\ key = <<e.source_model, e.field_name>>
          /\ \E x \in EdgeFields(e.source_model) :
               LET field == world.fields[e.source_model][x]
               IN /\ field.field_name = e.field_name
                  /\ field.fk_location_model = e.target_model
                  /\ field.fk_location_model_id = e.target_model_id
          /\ \E c \in 1..Len(calls) :
               /\ calls[c].model = e.source_model
               /\ \E x \in EdgeEvents(c) : events[x].ok
               /\ e.edge_count = Len(RecordsOf(c))
               /\ e.unique_targets = Cardinality(ResolvedIds(RecordsOf(c), e.field_name))
               /\ e.unique_targets >= 1

\* A sync of two records, the second without id and without value in the
\* second FK column: both columns got their edge, each counting both
\* records, the first with two distinct targets and the second with one.
C23_Witness ==
  /\ RootDone /\ calls[1].model = "A"
  /\ Len(RootRecords) = 2 /\ IdLess(1) = {2}
  /\ outcome.result.records_synced = 1
  /\ {<<"A", "f1">>, <<"A", "f2">>} \subseteq DOMAIN edges
  /\ edges[<<"A", "f1">>].edge_count = 2 /\ edges[<<"A", "f1">>].unique_targets = 2
  /\ edges[<<"A", "f2">>].edge_count = 2 /\ edges[<<"A", "f2">>].unique_targets = 1

\* The second FK column names a target model without target model id: its
\* records resolve an id, no upsert failed, and it has no edge.
C23_WitnessNoTargetId ==
  /\ RootDone /\ calls[1].model = "A" /\ faults = 0
  /\ \E x \in 1..Len(RootFields) :
       /\ RootFields[x].field_name = "f2"
       /\ RootFields[x].fk_location_model = "B"
       /\ RootFields[x].fk_location_model_id = 0
  /\ ResolvedIds(RootRecords, "f2") # {}
  /\ <<"A", "f1">> \in DOMAIN edges /\ <<"A", "f2">> \notin DOMAIN edges

(* -------------------------------- C24 ---------------------------------- *)

\* The positions of the FK fields of model m that name target model t.
FieldsTo(m, t) ==
  {x \in ManyToOne(world.fields[m]) : world.fields[m][x].fk_location_model = t}

\* The FK ids the records resolve for target model t over all FK fields of
\* model m that name it.
IdsFor(records, m, t) ==
  UNION {ResolvedIds(records, world.fields[m][x].field_name) : x \in FieldsTo(m, t)}

\* The calls that hold the map extractFkTargets returned.
WithTargets ==
  {d \in 1..Len(stack) :
     ~stack[d].skipCascade /\ stack[d].pc \in {"nested", "awaitNested", "finish"}}

\* C24: the map extractFkTargets returns.  A target model is a key exactly
\* when some record resolves an FK id in some FK field naming it, each key
\* once; its set is the union of the ids resolved over all those fields and
\* all records and is never empty; the map is empty when the model has no
\* FK field or no record resolves any; and cells that resolve nothing add
\* nothing and raise nothing: the call gets its map and goes on.
C24_FkTargets ==
  \A d \in WithTargets :
    LET f == stack[d]
        fkTargets == f.fkTargets
        keys == {fkTargets[x].model : x \in 1..Len(fkTargets)}
    IN /\ \E x \in 1..Len(events) :
            /\ events[x].call = f.call /\ events[x].op = "targets"
            /\ events[x].n = Len(fkTargets) /\ events[x].ok
       /\ \A x, y \in 1..Len(fkTargets) :
            fkTargets[x].model = fkTargets[y].model => x = y
       /\ keys = {t \in Models : IdsFor(f.records, f.model, t) # {}}
       /\ \A x \in 1..Len(fkTargets) :
            /\ fkTargets[x].ids = IdsFor(f.records, f.model, fkTargets[x].model)
            /\ fkTargets[x].ids # {}
       /\ (ManyToOne(world.fields[f.model]) = {}
           \/ \A x \in ManyToOne(world.fields[f.model]) :
                ResolvedIds(f.records, world.fields[f.model][x].field_name) = {})
            => fkTargets = <<>>

\* Two FK columns of one record point at the same model with different
\* ids: the map has one key whose set holds both ids.
C24_Witness ==
  /\ WithTargets = {1}
  /\ Len(stack[1].fkTargets) = 1
  /\ Cardinality(FieldsTo(stack[1].model, stack[1].fkTargets[1].model)) = 2
  /\ stack[1].fkTargets[1].ids = {1, 2}

\* The FK columns hold only null and text: the map is empty and the call
\* is about to return.
C24_WitnessEmpty ==
  /\ WithTargets = {1} /\ stack[1].pc = "finish"
  /\ ManyToOne(world.fields[stack[1].model]) # {}
  /\ \E y \in 1..Len(stack[1].records) : Cell(stack[1].records[y], "f1") = Str("n/a")
  /\ stack[1].fkTargets = <<>>

(* -------------------------------- C25 ---------------------------------- *)

\* The calls that have just got their records back from transformRecords.
JustTransformed ==
  {d \in 1..Len(stack) :
     /\ stack[d].i = 0 /\ stack[d].pc \in {"embed", "graph"}
     /\ \A x \in 1..Len(events) :
          events[x].call = stack[d].call => events[x].op = "transform"}

\* C25: transformRecords keeps the order of its input.  Its output has one
\* record per input record with a truthy id and none for the others; the
\* x-th output record carries the id of the x-th such input record, so the
\* input positions the output comes from increase strictly; and every
\* output record carries the model name and the model id of the call.
C25_OrderPreserved ==
  \A d \in JustTransformed :
    LET f == stack[d]
        records == f.records
        withId == {y \in 1..Len(records) : ~Falsy(records[y].id)}
        pos == SelectSeq([y \in 1..Len(records) |-> y], LAMBDA y : y \in withId)
    IN /\ Len(f.transformed) = Cardinality(withId)
       /\ Len(pos) = Len(f.transformed)
       /\ \A x \in 1..(Len(pos) - 1) : pos[x] < pos[x + 1]
       /\ \A x \in 1..Len(f.transformed) :
            /\ pos[x] \in withId
            /\ records[pos[x]].id.kind = "num"
            /\ f.transformed[x].record_id = records[pos[x]].id.n
            /\ f.transformed[x].model_name = f.model
            /\ f.transformed[x].model_id = world.id[f.model]
            /\ f.transformed[x].model_id = f.modelId

\* 120 records of which the second has no id: 119 records come out, the
\* second of them being the third record of the file.
C25_Witness ==
  /\ JustTransformed = {1}
  /\ Len(stack[1].records) = 120 /\ Falsy(stack[1].records[2].id)
  /\ Len(stack[1].transformed) = 119
  /\ stack[1].transformed[2].record_id = stack[1].records[3].id.n
  /\ stack[1].transformed[119].record_id = 120

(* -------------------------------- C26 ---------------------------------- *)

\* The input record the x-th transformed record of frame f was made from.
SourceOf(f, x) ==
  LET pos == SelectSeq([y \in 1..Len(f.records) |-> y],
                       LAMBDA y : ~Falsy(f.records[y].id))
  IN f.records[pos[x]]

\* The raw fields of record r that are not null or undefined are in the
\* payload with their values.
RawKept(r, payload) ==
  \A k \in DOMAIN r :
    r[k].kind \notin {"null", "undef"} => (k \in DOMAIN payload /\ payload[k] = r[k])

\* The payload holds `<field>_qdrant`, the identity of (target model id,
\* FK id), and holds `<field>_id`, the FK id, exactly when the cell of
\* record r is a bare number.
FkKeysAdded(r, field, payload) ==
  LET v == Cell(r, field.field_name)
  IN /\ QdrantKey(field.field_name) \in DOMAIN payload
     /\ payload[QdrantKey(field.field_name)] =
          buildDataUuidV2(field.fk_location_model_id, v.n)
     /\ IdKey(field.field_name) \in DOMAIN payload <=> v.kind = "num"
     /\ v.kind = "num" => payload[IdKey(field.field_name)] = Num(v.n)

\* The many2one fields for which record r resolves an FK id.
ResolvedFields(r, fields) ==
  {x \in ManyToOne(fields) : Cell(r, fields[x].field_name).kind \in {"num", "tuple"}}

SystemFieldsOf(point, record) ==
  /\ point.payload.point_id = point.id
  /\ point.payload.point_type = Str("data")
  /\ point.payload.record_id = Num(record.record_id)
  /\ point.payload.model_name = Str(record.model_name)
  /\ point.payload.model_id = Num(record.model_id)
  /\ point.payload.vector_text = record.vector_text

\* C27 as stated: every point handed to the store carries in its payload
\* the system fields of its own record, whatever columns the raw record
\* has: point_id is the point's id, point_type is "data", and record_id,
\* model_name, model_id and vector_text are the transformed record's.
C27_SystemFields ==
  \A d \in 1..Len(stack) :
    stack[d].pc = "upsert" =>
      \A x \in 1..Len(stack[d].points) :
        SystemFieldsOf(stack[d].points[x], BatchOf(stack[d])[x])

(* -------------------------------- C28 ---------------------------------- *)

\* The records of frame f in the batches its loop is through with.
Processed(f) ==
  IF f.pc \in {"embed", "upsert"} THEN f.i ELSE Len(f.transformed)

\* The accounting of the running calls and of the results returned.
C28_Balanced ==
  /\ \A d \in 1..Len(stack) :
       LET f == stack[d]
       IN f.pc \notin {"modelExists", "getModelId", "read", "transform"} =>
            /\ f.recordsSynced + f.recordsFailed = Processed(f)
            /\ f.pc \in {"embed", "upsert"} =>
                 /\ f.i % EMBEDDING_BATCH_SIZE = 0 /\ f.i < Len(f.transformed)
                 /\ BatchOf(f) = [x \in 1..Len(BatchOf(f)) |-> f.transformed[f.i + x]]
                 /\ Len(BatchOf(f)) =
                      (IF f.i + EMBEDDING_BATCH_SIZE <= Len(f.transformed)
                       THEN EMBEDDING_BATCH_SIZE ELSE Len(f.transformed) - f.i)
                 /\ Len(BatchOf(f)) \in 1..EMBEDDING_BATCH_SIZE
  /\ \A x \in 1..Len(returned) :
       LET c == returned[x].call
       IN (returned[x].kind = "result" /\ Did(c, "transform", TransformedBy(c), TRUE)) =>
            returned[x].result.records_synced + returned[x].result.records_failed =
              Cardinality({y \in 1..Len(RecordsOf(c)) : ~Falsy(RecordsOf(c)[y].id)})

\* recordsSynced of a call changes only in the step in which the store
\* upsert of its current batch returns, and then grows by that batch.
C28_SyncedAfterUpsert ==
  \A d \in 1..Len(stack) :
    (d <= Len(stack') /\ stack'[d].call = stack[d].call
       /\ stack'[d].recordsSynced # stack[d].recordsSynced) =>
      /\ d = Len(stack) /\ stack[d].pc = "upsert"
      /\ UpsertReturned
      /\ events'[Len(events')].call = stack[d].call
      /\ events'[Len(events')].n = BatchNum(stack[d])
      /\ stack'[d].recordsSynced = stack[d].recordsSynced + Len(BatchOf(stack[d]))

\* C28: the accounting of the batch loop.  After every batch
\* records_synced + records_failed is the number of transformed records in
\* the batches processed so far; records_synced grows only when the store
\* upsert of the batch has returned; at the end the sum is the number of
\* records with id; and the batches are contiguous slices of 50 records,
\* only the last possibly smaller.
C28_Accounting == []C28_Balanced /\ [][C28_SyncedAfterUpsert]_vars

\* 120 records, one without id: batch 2 failed, and the sync returned with
\* 69 synced and 50 failed, 119 in all.
C28_Witness ==
  /\ RootDone
  /\ outcome.result.records_read = 120
  /\ outcome.result.records_synced = 69
  /\ outcome.result.records_failed = 50
  /\ Committed(1, 1) /\ Committed(1, 3)

\* The last batch, of 19 records, is on its way to the store after a
\* committed and a failed batch of 50.
C28_WitnessMidway ==
  /\ Len(stack) = 1 /\ stack[1].pc = "upsert"
  /\ stack[1].i = 100 /\ Len(BatchOf(stack[1])) = 19
  /\ stack[1].recordsSynced = 50 /\ stack[1].recordsFailed = 50

(* -------------------------------- C29 ---------------------------------- *)

\* What the catch of the batch's try can have caught.
BatchFailures ==
  {"embedding service error", "embedding count mismatch", "store write error"}

\* The errors of an account are one entry per failed batch, in batch order.
OnePerFailedBatch(a) ==
  LET failed == {b \in 1..a.done : ~Committed(a.call, b)}
  IN /\ Len(a.errors) = Cardinality(failed)
     /\ {a.errors[x].batch : x \in 1..Len(a.errors)} = failed
     /\ \A x \in 1..Len(a.errors) :
          /\ a.errors[x].batch >= 1
          /\ a.errors[x].msg \in BatchFailures
     /\ \A x \in 1..(Len(a.errors) - 1) : a.errors[x].batch < a.errors[x + 1].batch

\* The errors of a call change only when one of its batches fails, and
\* then by one entry naming that batch.
C29_OnlyBatchErrors ==
  \A d \in 1..Len(stack) :
    (d <= Len(stack') /\ stack'[d].call = stack[d].call
       /\ stack'[d].errors # stack[d].errors) =>
      /\ d = Len(stack) /\ stack[d].pc \in {"embed", "upsert"}
      /\ Len(stack'[d].errors) = Len(stack[d].errors) + 1
      /\ SubSeq(stack'[d].errors, 1, Len(stack[d].errors)) = stack[d].errors
      /\ stack'[d].errors[Len(stack'[d].errors)].batch = BatchNum(stack[d])
      /\ ~UpsertReturned

\* C29: the errors of a full sync are exactly one entry per failed batch
\* and nothing else, in strictly increasing batch number counted from 1,
\* so their number is the number of failed batches, whatever fails among
\* the edge upserts, the index call and the nested syncs.
C29_ErrorsAreBatches ==
  /\ [](\A a \in Accounts : OnePerFailedBatch(a))
  /\ [][C29_OnlyBatchErrors]_vars

\* Batch 1 of the root failed, so did the upsert of its first edge and the
\* nested sync of its first target: the root returned one error, for
\* batch 1.
C29_Witness ==
  /\ RootDone /\ Len(calls) = 3
  /\ Did(1, "edge", 1, FALSE)
  /\ \E x \in 1..Len(returned) : returned[x].call = 2 /\ NestedFailure(x)
  /\ Len(outcome.result.errors) = 1 /\ outcome.result.errors[1].batch = 1
  /\ outcome.result.records_failed = 2

\* Batches 1 and 3 of three failed: two errors, for batch 1 and batch 3.
C29_WitnessTwo ==
  /\ RootDone /\ Committed(1, 2)
  /\ [x \in 1..Len(outcome.result.errors) |-> outcome.result.errors[x].batch] = <<1, 3>>

(* -------------------------------- C30 ---------------------------------- *)

\* Some record of the root resolves an FK id in a field whose target model
\* is the root's own model.
SelfTarget == IdsFor(RootRecords, calls[1].model, calls[1].model) # {}

\* The nested calls on the root's own model.
SelfSyncs == {c \in 2..Len(calls) : calls[c].model = calls[1].model}

\* C30: a root whose records resolve an FK to the root's own model syncs
\* itself again.  When its cascade starts the root's own model is among
\* its targets; once its cascade is through there has been exactly one
\* nested sync of the root's model, at depth 2, with cascade off and over
\* the model's default file; and when that file is the root's and no
\* collaborator has failed, every batch the root embedded and wrote was
\* embedded and written once more by the nested sync, after the root's.
C30_SelfCascade ==
  (Len(calls) >= 1 /\ SelfTarget) =>
    /\ \A d \in WithTargets :
         stack[d].call = 1 =>
           \E x \in 1..Len(stack[d].fkTargets) : stack[d].fkTargets[x].model = calls[1].model
    /\ \A c \in SelfSyncs :
         /\ calls[c].skipCascade /\ calls[c].depth = 2
         /\ calls[c].path = getDefaultDataFilePath(calls[1].model)
    /\ CascadeDone =>
         /\ Cardinality(SelfSyncs) = 1
         /\ \A c \in SelfSyncs :
              (calls[1].path = calls[c].path /\ faults = 0) =>
                /\ TransformedBy(c) = TransformedBy(1)
                /\ \A b \in 1..NumBatches(TransformedBy(1)) :
                     \E x1, x2, y1, y2 \in 1..Len(events) :
                       /\ x1 < x2 /\ x2 < y1 /\ y1 < y2
                       /\ events[x1] = [op |-> "embed", call |-> 1, model |-> calls[1].model,
                                         n |-> b, ok |-> TRUE]
                       /\ events[x2] = [events[x1] EXCEPT !.op = "upsert"]
                       /\ events[y1] = [events[x1] EXCEPT !.call = c]
                       /\ events[y2] = [events[x2] EXCEPT !.call = c]

\* A -> A: the root A returned after a nested sync of A that wrote A's
\* two records again; their points carry the time of the second write.
C30_Witness ==
  /\ RootDone /\ CascadeDone /\ SelfTarget
  /\ calls[1].model = "A" /\ calls[1].path = getDefaultDataFilePath("A")
  /\ SelfSyncs = {2} /\ faults = 0
  /\ Committed(1, 1) /\ Committed(2, 1)
  /\ Cardinality(DOMAIN store) >= 2
  /\ \A id \in DOMAIN store :
       id.m = RegistryId("A") => store[id].payload.sync_timestamp = Timestamp(1)
  /\ \E x \in 1..Len(outcome.result.cascaded_models) :
       outcome.result.cascaded_models[x] = [model_name |-> "A", records_synced |-> 2]

(* -------------------------------- C31 ---------------------------------- *)

\* The FK fields of frame f, by position among the fields that declare a
\* target model and its id, for which some raw record resolves an FK id.
RawEdgesDue(f) ==
  LET fkFields == GraphFkFields(world.fields[f.model])
  IN {k \in 1..Len(fkFields) : ResolvedIds(f.records, fkFields[k].field_name) # {}}

\* C31: edge upserts, index maintenance and cascade do not depend on the
\* outcome of the batches.  Every call that is through with its batch
\* loop, root or nested, whatever its errors, goes on to the knowledge
\* graph: past it, every FK field some raw record resolves (records
\* without id included) had its edge upsert attempted, and its edge is in
\* the graph store when the upsert returned; past the index step the index
\* call was made; and a call with cascade on then collected its FK targets
\* from all raw records and, once through, has synced each of them.  No
\* call returns the result of a full sync without having made its index
\* call, and none with cascade on without having collected its targets.
C31_IndependentOfBatches ==
  /\ \A d \in 1..Len(stack) :
       LET f == stack[d]
       IN /\ f.pc \in {"embed", "upsert"} =>
               \A x \in 1..Len(events) :
                 events[x].call = f.call => events[x].op \in {"transform", "embed", "upsert"}
          /\ f.pc \in {"index", "cascade", "nested", "awaitNested", "finish"} =>
               /\ \A k \in RawEdgesDue(f) :
                    \E x \in EdgeEvents(f.call) : events[x].n = k
               /\ \A k \in RawEdgesDue(f) :
                    Did(f.call, "edge", k, TRUE) =>
                      LET key == <<f.model, GraphFkFields(world.fields[f.model])[k].field_name>>
                      IN key \in DOMAIN edges
          /\ f.pc \in {"cascade", "nested", "awaitNested", "finish"} =>
               Did(f.call, "index", 0, TRUE)
          /\ (f.pc \in {"nested", "awaitNested", "finish"} /\ ~f.skipCascade) =>
               /\ {f.fkTargets[x].model : x \in 1..Len(f.fkTargets)} =
                    {t \in Models : IdsFor(f.records, f.model, t) # {}}
               /\ f.pc = "finish" => Len(calls) = 1 + Len(f.fkTargets)
  /\ \A x \in 1..Len(returned) :
       LET c == returned[x].call
       IN (returned[x].kind = "result" /\ Did(c, "transform", TransformedBy(c), TRUE)) =>
            /\ Did(c, "index", 0, TRUE)
            /\ ~calls[c].skipCascade =>
                 \E y \in 1..Len(events) : events[y].call = c /\ events[y].op = "targets"

\* Every batch of the root failed: it still wrote its edge, made its index
\* call and synced its target, whose nested sync wrote an edge and made
\* its index call as well, and it returned success = false.
C31_Witness ==
  /\ RootDone /\ ~outcome.result.success
  /\ outcome.result.records_synced = 0 /\ outcome.result.records_failed = 2
  /\ Did(1, "edge", 1, TRUE) /\ Did(1, "index", 0, TRUE)
  /\ Len(calls) >= 2 /\ calls[2].skipCascade
  /\ Did(2, "edge", 1, TRUE) /\ Did(2, "index", 0, TRUE)
  /\ Len(outcome.result.cascaded_models) >= 1

(* -------------------------------- C32 ---------------------------------- *)

\* Call c is on a model the registry knows, over a file that exists and
\* holds no record.
EmptyFile(c) == ~Fatal(c) /\ Len(RecordsOf(c)) = 0

\* C32: a sync over an existing file without records, dry run or not,
\* returns success = true with nothing read, synced or failed and no
\* error; it never gets past reading the file, calls no collaborator (no
\* transform, embedding, store upsert, edge upsert, index call, FK-target
\* collection) and starts no nested sync.
C32_EmptyFile ==
  /\ \A d \in 1..Len(stack) :
       EmptyFile(stack[d].call) => stack[d].pc \in {"modelExists", "getModelId", "read"}
  /\ \A c \in 1..Len(calls) :
       EmptyFile(c) =>
         /\ \A x \in 1..Len(events) : events[x].call # c
         /\ c = 1 => (Len(calls) = 1 /\ store = <<>> /\ edges = <<>>)
         /\ (c = 1 /\ phase = "done") => RootDone
         /\ \A x \in 1..Len(returned) :
              returned[x].call = c =>
                /\ returned[x].kind = "result"
                /\ returned[x].result.success
                /\ returned[x].result.records_read = 0
                /\ returned[x].result.records_synced = 0
                /\ returned[x].result.records_failed = 0
                /\ returned[x].result.errors = <<>>
                /\ returned[x].result.cascaded_models = <<>>
                /\ returned[x].result.model_id = world.id[calls[c].model]

\* A root sync, not a dry run and with cascade on, over an empty file of a
\* model whose schema declares FK targets, has returned.
C32_Witness ==
  /\ RootDone /\ EmptyFile(1)
  /\ ~calls[1].dryRun /\ ~calls[1].skipCascade
  /\ DeclaredTargets(RootFields) # {}
  /\ outcome.result.success /\ outcome.result.records_read = 0

\* The same as a dry run; and a nested sync over an empty file.
C32_WitnessDryRun ==
  /\ RootDone /\ EmptyFile(1) /\ calls[1].dryRun
  /\ outcome.result.success

C32_WitnessNested ==
  /\ RootDone /\ Len(calls) >= 2 /\ EmptyFile(2) /\ Ended(2)
  /\ outcome.result.cascaded_models[1] =
       [model_name |-> calls[2].model, records_synced |-> 0]

(* -------------------------------- C33 ---------------------------------- *)

\* What a row holds for an FK column under its exact header and under the
\* header with one leading space.
ExactCell(row, column) == Cell(row, column)
SpacedCell(row, column) == Cell(row, Spaced(column))

\* The value a row resolves for an FK column: the exact header's unless
\* that is undefined, then the spaced header's.
Resolved(row, column) ==
  IF ExactCell(row, column) # Undef THEN ExactCell(row, column)
  ELSE SpacedCell(row, column)

\* C33: getFkField and the FK reference id.  In every converted row the FK
\* model id and the FK record id are the exact header's value when that is
\* not undefined (null included), else the value under the header with
\* one leading space, and undefined when the row has neither; and the row
\* has an FK reference id exactly when both resolve to a value that is not
\* undefined, under either header, and it is then the identity of the two.
C33_FkFieldFallback ==
  conv.pc = "returned" =>
    /\ Len(conv.converted) = Len(conv.arg.rows)
    /\ \A x \in 1..Len(conv.converted) :
         LET row == conv.arg.rows[x]
             out == conv.converted[x]
             both == /\ Resolved(row, FkModelIdColumn) # Undef
                     /\ Resolved(row, FkRecordIdColumn) # Undef
         IN /\ \A column \in {FkModelIdColumn, FkRecordIdColumn} :
                 LET got == IF column = FkModelIdColumn THEN out.fk_location_model_id
                            ELSE out.fk_location_record_id
                 IN /\ ExactCell(row, column) # Undef => got = ExactCell(row, column)
                    /\ ExactCell(row, column) = Undef => got = SpacedCell(row, column)
                    /\ (Spaced(column) \notin DOMAIN row /\ column \notin DOMAIN row)
                         => got = Undef
            /\ out.fk_qdrant_id # Undef <=> both
            /\ both => /\ out.fk_qdrant_id.kind = "uuid"
                        /\ out.fk_qdrant_id.m = Resolved(row, FkModelIdColumn).n
                        /\ out.fk_qdrant_id.n = Resolved(row, FkRecordIdColumn).n
            /\ (\E y \in 1..Len(out.semantic_text) :
                  out.semantic_text[y].key = "Qdrant ID for FK") <=> both

\* A schema was converted whose rows are: both FK ids under spaced headers
\* (an FK reference id from the fallback), a null FK model id under the
\* exact header beside a number under the spaced one (the null is taken),
\* and an FK model id without FK record id (no FK reference id).
C33_Witness ==
  /\ conv.pc = "returned" /\ Len(conv.converted) = 3
  /\ \E x, y, z \in 1..3 :
       /\ FkModelIdColumn \notin DOMAIN conv.arg.rows[x]
       /\ FkRecordIdColumn \notin DOMAIN conv.arg.rows[x]
       /\ conv.converted[x].fk_qdrant_id = buildSchemaFkRefUuidV2(Num(3), Num(9))
       /\ ExactCell(conv.arg.rows[y], FkModelIdColumn) = Null
       /\ SpacedCell(conv.arg.rows[y], FkModelIdColumn) = Num(3)
       /\ conv.converted[y].fk_location_model_id = Null
       /\ conv.converted[y].fk_qdrant_id # Undef
       /\ Resolved(conv.arg.rows[z], FkModelIdColumn) = Num(3)
       /\ Resolved(conv.arg.rows[z], FkRecordIdColumn) = Undef
       /\ conv.converted[z].fk_qdrant_id = Undef

====
